---- MODULE Spec2Model ----
(***************************************************************************)
(* Verification model of the backtester core.                              *)
(*                                                                         *)
(*   simulate (backend/services/portfolio_sim.py): the per-bar loop of the *)
(*   single-position portfolio simulator.  One LoopIter step is one        *)
(*   iteration of `for i in range(n)`.  Prices and money are exact         *)
(*   rationals <<numerator, denominator>>; the rounding applied to the     *)
(*   trade record for display (round(.., 6), round(.., 4)) is not applied, *)
(*   the record keeps the value that is rounded.                           *)
(*                                                                         *)
(*   The input arrays are read as the loop reads them: bar i's high, low   *)
(*   and close, entries[i], exits[i] and open_[i+1] are drawn when         *)
(*   iteration i runs.  `bar` keeps what iteration i read of bar i,        *)
(*   `open_` the opens read so far, `entries` / `exits` the signal         *)
(*   prefixes ("unread" where the iteration did not read the signal),      *)
(*   `opened` counts the positions opened so far (lines 166-168 reached).  *)
(*                                                                         *)
(*   The equity array is only written by the loop, one element per         *)
(*   iteration.  The model keeps how many elements were written            *)
(*   (equity_len) and the element the latest iteration wrote               *)
(*   (equity_last): equity[0] is equity_last when equity_len = 1.          *)
(*                                                                         *)
(*   run_backtest (backend/services/backtest_service.py): the driver over  *)
(*   the (ticker, date) groups.  Days are numbered 1..MaxDays in the order *)
(*   the groupby yields them.  A day is what decides its path through the  *)
(*   driver: whether it has 5 bars, what translate_strategy does on it,    *)
(*   its batch key, and whether the portfolio call raises on it.  A        *)
(*   Complete step is one turn of the as_completed loop: it takes any      *)
(*   future still pending.                                                 *)
(*                                                                         *)
(*   The functions without state of their own (signal translation, trade   *)
(*   enrichment, equity chaining, Monte Carlo) are applied to `call`, the  *)
(*   function's name and arguments, and leave their return value in `ret`. *)
(*                                                                         *)
(*   Spec runs simulate with the rest idle, SpecDriver runs the driver,    *)
(*   and each function has a specification of its own that draws its       *)
(*   arguments and applies it.                                             *)
(***************************************************************************)
EXTENDS Integers, Sequences, FiniteSets, TLC

VARIABLES
    n, direction, fees, slippage, sl_stop, sl_trail, tp_stop,
    i, pc,
    realized_pnl, in_position, entry_price, entry_idx, entry_fee_amount,
    size, trail_extreme,
    equity_len, equity_last, trades,
    bar, open_, entries, exits, opened,
    days, phase, signal_inputs, future_map, prepared, batches, batch_i,
    all_trades, all_candles, all_equity, day_results,
    call, ret

params == <<n, direction, fees, slippage, sl_stop, sl_trail, tp_stop>>
locals == <<realized_pnl, in_position, entry_price, entry_idx,
            entry_fee_amount, size, trail_extreme>>
inputs == <<bar, open_, entries, exits, opened>>
equity == <<equity_len, equity_last>>
simVars == <<params, i, pc, locals, equity, trades, inputs>>
outputs == <<all_trades, all_candles, all_equity, day_results>>
driverVars == <<days, phase, signal_inputs, future_map, prepared, batches,
                batch_i, outputs>>
callVars == <<call, ret>>
vars == <<simVars, driverVars, callVars>>

----------------------------------------------------------------------------
(* Bounds of the model. *)
MaxBars == 3
TopPrice == 3

MaxDays == 3
MaxMinute == 6
MaxPoints == 2
SeriesLen == 2
MaxTrades == 3
Simulations == 3
FloatDigits == 3

(* Default starting cash of simulate. *)
InitCash == 10000

(* A day needs this many bars to be simulated. *)
MinBars == 5

(* Batches of at least this many days share one portfolio call. *)
MIN_BATCH_SIZE == 2

----------------------------------------------------------------------------
(* Exact arithmetic on rationals <<p, q>>, q > 0, in lowest terms. *)

RECURSIVE GCD(_, _)
GCD(a, b) == IF b = 0 THEN a ELSE GCD(b, a % b)

Abs(x) == IF x < 0 THEN -x ELSE x

Norm(p, q) ==
    LET g == GCD(Abs(p), Abs(q))
        s == IF q < 0 THEN -1 ELSE 1
    IN  <<(s * p) \div g, (s * q) \div g>>

R(k) == <<k, 1>>
Frac(p, q) == Norm(p, q)
RAdd(x, y) == Norm(x[1] * y[2] + y[1] * x[2], x[2] * y[2])
RSub(x, y) == Norm(x[1] * y[2] - y[1] * x[2], x[2] * y[2])
RMul(x, y) == Norm(x[1] * y[1], x[2] * y[2])
RDiv(x, y) == Norm(x[1] * y[2], x[2] * y[1])
RLe(x, y) == x[1] * y[2] <= y[1] * x[2]
RLt(x, y) == x[1] * y[2] < y[1] * x[2]
RAbs(x) == <<Abs(x[1]), x[2]>>
RMax(x, y) == IF RLe(y, x) THEN x ELSE y
RMin(x, y) == IF RLe(x, y) THEN x ELSE y

RECURSIVE Pow10(_)
Pow10(k) == IF k = 0 THEN 1 ELSE 10 * Pow10(k - 1)

(* Python's None for an optional float. *)
None == <<0, 0>>

----------------------------------------------------------------------------
(* Input domains. *)
Prices == {1, 2, TopPrice}
Directions == {"longonly", "shortonly"}
StopOpts == {None, Frac(1, 2)}
FeeOpts == {R(0), Frac(1, 4)}
SlipOpts == {R(0), Frac(1, 4), R(1)}

(* What an iteration has not read of a bar is kept as 0. *)
NoBar == [high |-> 0, low |-> 0, close |-> 0]

init_cash == R(InitCash)
is_long == direction = "longonly"

----------------------------------------------------------------------------
(* Exit checks, lines 44-112. *)

(* the bar not folded into trail_extreme *)
TrailAfterNoFold(hi, lo) == trail_extreme

(* trail_extreme after line 60 / 67 *)
TrailAfter(hi, lo) ==
    IF sl_stop # None /\ sl_trail
    THEN IF is_long THEN RMax(trail_extreme, R(hi)) ELSE RMin(trail_extreme, R(lo))
    ELSE trail_extreme

(* sl_level, lines 61, 68, 75, 81 *)
SlLevel(hi, lo) ==
    LET base == IF sl_trail THEN TrailAfter(hi, lo) ELSE entry_price
    IN  IF is_long THEN RMul(base, RSub(R(1), sl_stop))
                   ELSE RMul(base, RAdd(R(1), sl_stop))

(* the stop test, lines 62, 69, 76, 82 *)
StopHit(hi, lo) ==
    /\ sl_stop # None
    /\ IF is_long THEN RLe(R(lo), SlLevel(hi, lo)) ELSE RLe(SlLevel(hi, lo), R(hi))

(* the stop's fill, lines 64, 71, 78, 84 *)
StopFill(hi, lo) ==
    IF is_long THEN RMax(SlLevel(hi, lo), R(lo)) ELSE RMin(SlLevel(hi, lo), R(hi))

(* every stop is reported as a plain stop-loss *)
StopReasonAlwaysSL == "SL"

StopReason == IF sl_trail THEN "Trailing" ELSE "SL"

(* tp_level, lines 90, 96 *)
TpLevel ==
    IF is_long THEN RMul(entry_price, RAdd(R(1), tp_stop))
               ELSE RMul(entry_price, RSub(R(1), tp_stop))

(* the take-profit test, lines 91, 97 *)
TpHit(hi, lo) ==
    /\ tp_stop # None
    /\ IF is_long THEN RLe(TpLevel, R(hi)) ELSE RLe(R(lo), TpLevel)

(* the take-profit fill, lines 93, 99 *)
TpFill(hi, lo) ==
    IF is_long THEN RMin(TpLevel, R(hi)) ELSE RMax(TpLevel, R(lo))

(* the take-profit tested before the stop *)
ExitCheckTpFirst(hi, lo, cl, x) ==
    IF TpHit(hi, lo)
    THEN [triggered |-> TRUE, price |-> TpFill(hi, lo), reason |-> "TP"]
    ELSE IF StopHit(hi, lo)
    THEN [triggered |-> TRUE, price |-> StopFill(hi, lo), reason |-> StopReason]
    ELSE IF x
    THEN [triggered |-> TRUE, price |-> R(cl), reason |-> "Signal"]
    ELSE IF i = n - 1
    THEN [triggered |-> TRUE, price |-> R(cl), reason |-> "EOD"]
    ELSE [triggered |-> FALSE, price |-> R(cl), reason |-> "Signal"]

(* the exit signal not tested on the bar recorded as the entry bar *)
ExitCheckSkipEntryBar(hi, lo, cl, x) ==
    IF StopHit(hi, lo)
    THEN [triggered |-> TRUE, price |-> StopFill(hi, lo), reason |-> StopReason]
    ELSE IF TpHit(hi, lo)
    THEN [triggered |-> TRUE, price |-> TpFill(hi, lo), reason |-> "TP"]
    ELSE IF x /\ i > entry_idx
    THEN [triggered |-> TRUE, price |-> R(cl), reason |-> "Signal"]
    ELSE IF i = n - 1
    THEN [triggered |-> TRUE, price |-> R(cl), reason |-> "EOD"]
    ELSE [triggered |-> FALSE, price |-> R(cl), reason |-> "Signal"]

(* no forced liquidation on the last bar *)
ExitCheckNoEod(hi, lo, cl, x) ==
    IF StopHit(hi, lo)
    THEN [triggered |-> TRUE, price |-> StopFill(hi, lo), reason |-> StopReason]
    ELSE IF TpHit(hi, lo)
    THEN [triggered |-> TRUE, price |-> TpFill(hi, lo), reason |-> "TP"]
    ELSE IF x
    THEN [triggered |-> TRUE, price |-> R(cl), reason |-> "Signal"]
    ELSE [triggered |-> FALSE, price |-> R(cl), reason |-> "Signal"]

(* exit_triggered, exit_price, exit_reason after the four checks *)
ExitCheck(hi, lo, cl, x) ==
    IF StopHit(hi, lo)
    THEN [triggered |-> TRUE, price |-> StopFill(hi, lo), reason |-> StopReason]
    ELSE IF TpHit(hi, lo)
    THEN [triggered |-> TRUE, price |-> TpFill(hi, lo), reason |-> "TP"]
    ELSE IF x
    THEN [triggered |-> TRUE, price |-> R(cl), reason |-> "Signal"]
    ELSE IF i = n - 1
    THEN [triggered |-> TRUE, price |-> R(cl), reason |-> "EOD"]
    ELSE [triggered |-> FALSE, price |-> R(cl), reason |-> "Signal"]

(* net_exit, lines 115-116 *)
NetExit(exit_price) ==
    LET slip == RMul(exit_price, slippage)
    IN  IF is_long THEN RSub(exit_price, slip) ELSE RAdd(exit_price, slip)

(* the long formula applied whatever the direction *)
PnlLongFormula(net_exit) ==
    LET exit_fee == RMul(RAbs(RMul(net_exit, size)), fees)
        gross == RMul(RSub(net_exit, entry_price), size)
    IN  RSub(RSub(gross, exit_fee), entry_fee_amount)

(* pnl, lines 117-122 *)
Pnl(net_exit) ==
    LET exit_fee == RMul(RAbs(RMul(net_exit, size)), fees)
        gross == IF is_long THEN RMul(RSub(net_exit, entry_price), size)
                            ELSE RMul(RSub(entry_price, net_exit), size)
    IN  RSub(RSub(gross, exit_fee), entry_fee_amount)

(* ret_pct, lines 125-126 *)
RetPct(pnl) ==
    LET capital_at_risk == RAdd(RMul(entry_price, size), entry_fee_amount)
    IN  IF RLt(R(0), capital_at_risk)
        THEN RMul(RDiv(pnl, capital_at_risk), R(100))
        ELSE R(0)

(* the trade record appended at lines 128-139 *)
Trade(ex) ==
    LET net_exit == NetExit(ex.price)
        pnl == Pnl(net_exit)
    IN  [entry_idx |-> entry_idx,
         exit_idx |-> i,
         entry_price |-> entry_price,
         exit_price |-> net_exit,
         pnl |-> pnl,
         return_pct |-> RetPct(pnl),
         direction |-> IF is_long THEN "Long" ELSE "Short",
         status |-> "Closed",
         size |-> size,
         exit_reason |-> ex.reason]

----------------------------------------------------------------------------
(* Entry check, lines 145-168. *)

(* the guard on in_position as it was when the iteration started *)
EntryCondStale(inpos, e) == ~in_position /\ e /\ i < n - 1

(* the guard without the test for a next bar *)
EntryCondAnyBar(inpos, e) == ~inpos /\ e

(* the guard of line 145, on in_position as the exit block left it *)
EntryCond(inpos, e) == ~inpos /\ e /\ i < n - 1

(* the entry recorded on the bar of its signal *)
EntryIdxSameBar == i

(* the entry recorded one bar late *)
EntryIdxLate == i + 2

(* entry_idx, line 167 *)
EntryIdx == i + 1

(* entry_price, lines 151-153 *)
EntryFill(ep) ==
    LET slip == RMul(R(ep), slippage)
    IN  IF is_long THEN RAdd(R(ep), slip) ELSE RSub(R(ep), slip)

(* size, lines 158-159 *)
EntrySize(available_cash, price) ==
    RDiv(available_cash, RMul(price, RAdd(R(1), fees)))

(* entry_fee_amount, line 164 *)
EntryFee(price, sz) == RMul(RAbs(RMul(price, sz)), fees)

(* the open position not marked to the close *)
MarkRealizedOnly(inpos, rp, price, sz, cl) == RAdd(init_cash, rp)

(* equity[i], lines 171-178 *)
Mark(inpos, rp, price, sz, cl) ==
    IF inpos
    THEN LET unrealized == IF is_long THEN RMul(RSub(R(cl), price), sz)
                                      ELSE RMul(RSub(price, R(cl)), sz)
         IN  RAdd(RAdd(init_cash, rp), unrealized)
    ELSE RAdd(init_cash, rp)

----------------------------------------------------------------------------
(* No function called, nothing returned. *)
NoCall == [fn |-> "none"]
NoRet == [state |-> "none"]
CallIdle == call = NoCall /\ ret = NoRet

(* The driver before run_backtest is called. *)
DriverIdle ==
    /\ days = <<>>
    /\ phase = "idle"
    /\ signal_inputs = <<>>
    /\ future_map = {}
    /\ prepared = <<>>
    /\ batches = <<>>
    /\ batch_i = 0
    /\ all_trades = <<>>
    /\ all_candles = <<>>
    /\ all_equity = <<>>
    /\ day_results = <<>>

Init ==
    /\ n \in 0..MaxBars
    /\ direction \in Directions
    /\ fees \in FeeOpts
    /\ slippage \in SlipOpts
    /\ sl_stop \in StopOpts
    /\ sl_trail \in BOOLEAN
    /\ tp_stop \in StopOpts
    /\ i = 0
    /\ pc = "loop"
    /\ realized_pnl = R(0)
    /\ in_position = FALSE
    /\ entry_price = R(0)
    /\ entry_idx = 0
    /\ entry_fee_amount = R(0)
    /\ size = R(0)
    /\ trail_extreme = R(0)
    /\ equity_len = 0
    /\ equity_last = None
    /\ trades = <<>>
    /\ bar = NoBar
    /\ open_ = [k \in 1..MaxBars |-> 0]
    /\ entries = <<>>
    /\ exits = <<>>
    /\ opened = 0
    /\ DriverIdle
    /\ CallIdle

(* The exit block of lines 44-142 on bar i: what it leaves in the locals.   *)
ExitBlock(hi, lo, cl, x) ==
    IF ~in_position
    THEN [closing |-> FALSE, trade |-> <<>>, realized_pnl |-> realized_pnl,
          size |-> size, entry_fee_amount |-> entry_fee_amount,
          trail_extreme |-> trail_extreme, read_exit |-> FALSE]
    ELSE LET ex == ExitCheck(hi, lo, cl, x)
             tr == Trade(ex)
             read_x == ~StopHit(hi, lo) /\ ~TpHit(hi, lo)
         IN  IF ex.triggered
             THEN [closing |-> TRUE, trade |-> <<tr>>,
                   realized_pnl |-> RAdd(realized_pnl, tr.pnl),
                   size |-> R(0), entry_fee_amount |-> R(0),
                   trail_extreme |-> TrailAfter(hi, lo), read_exit |-> read_x]
             ELSE [closing |-> FALSE, trade |-> <<>>, realized_pnl |-> realized_pnl,
                   size |-> size, entry_fee_amount |-> entry_fee_amount,
                   trail_extreme |-> TrailAfter(hi, lo), read_exit |-> read_x]

(* The entry block of lines 145-168 after the exit block left xb, with      *)
(* open_[i+1] = on: the three `continue` paths and the opening path.        *)
EntryBlock(xb, e, on) ==
    LET available_cash == RAdd(init_cash, xb.realized_pnl)
        price == EntryFill(on)
        sz == EntrySize(available_cash, price)
        fee == EntryFee(price, sz)
        stay == [path |-> "none", realized_pnl |-> xb.realized_pnl,
                 entry_price |-> entry_price, size |-> xb.size,
                 entry_fee_amount |-> xb.entry_fee_amount,
                 entry_idx |-> entry_idx, trail_extreme |-> xb.trail_extreme]
    IN  IF ~EntryCond(in_position /\ ~xb.closing, e) THEN stay
        ELSE IF ~RLt(R(0), available_cash) THEN [stay EXCEPT !.path = "no_cash"]
        ELSE IF ~RLt(R(0), price)
             THEN [stay EXCEPT !.path = "no_price", !.entry_price = price]
        ELSE IF ~RLt(R(0), sz)
             THEN [stay EXCEPT !.path = "no_size", !.entry_price = price, !.size = sz]
        ELSE [path |-> "open", realized_pnl |-> RSub(xb.realized_pnl, fee),
              entry_price |-> price, size |-> sz, entry_fee_amount |-> fee,
              entry_idx |-> EntryIdx, trail_extreme |-> price]

(* Whether line 151 is reached, so that open_[i+1] is read. *)
ReadsOpen(xb, e) ==
    /\ EntryCond(in_position /\ ~xb.closing, e)
    /\ RLt(R(0), RAdd(init_cash, xb.realized_pnl))

Sig(read, v) == IF ~read THEN "unread" ELSE IF v THEN "true" ELSE "false"

(* equity[i] left as np.empty gave it on a `continue` *)
SkippedEquityUnwritten(rp) == None

(* equity[i] on a `continue`, lines 148, 155, 161 *)
SkippedEquity(rp) == RAdd(init_cash, rp)

(* One iteration of the loop of lines 42-178 on bar i = (hi, lo, cl) with   *)
(* entries[i] = e, exits[i] = x and open_[i+1] = on.  xb and nb are the     *)
(* results of the exit block and of the entry block.                        *)
Iterate(hi, lo, cl, e, x, on, xb, nb) ==
    LET inpos == (in_position /\ ~xb.closing) \/ nb.path = "open"
        skipped == nb.path \in {"no_cash", "no_price", "no_size"}
        readBar == in_position
        readClose == in_position \/ nb.path = "open"
        readOpen == ReadsOpen(xb, e)
        \* equity[i]: lines 148, 155, 161 on a `continue`, else lines 171-178
        eq == IF skipped THEN SkippedEquity(xb.realized_pnl)
              ELSE Mark(inpos, nb.realized_pnl, nb.entry_price, nb.size, cl)
    IN  /\ realized_pnl' = nb.realized_pnl
        /\ in_position' = inpos
        /\ entry_price' = nb.entry_price
        /\ size' = nb.size
        /\ entry_fee_amount' = nb.entry_fee_amount
        /\ entry_idx' = nb.entry_idx
        /\ trail_extreme' = nb.trail_extreme
        /\ trades' = trades \o xb.trade
        /\ equity_len' = equity_len + 1
        /\ equity_last' = eq
        /\ bar' = [high |-> IF readBar THEN hi ELSE 0,
                   low |-> IF readBar THEN lo ELSE 0,
                   close |-> IF readClose THEN cl ELSE 0]
        /\ open_' = IF readOpen THEN [open_ EXCEPT ![i + 1] = on] ELSE open_
        /\ entries' = Append(entries, Sig(~in_position \/ xb.closing, e))
        /\ exits' = Append(exits, Sig(xb.read_exit, x))
        /\ opened' = IF nb.path = "open" THEN opened + 1 ELSE opened

(* for i in range(n): the inputs an iteration does not read are not drawn. *)
LoopIter ==
    /\ pc = "loop"
    /\ i < n
    /\ \E hi \in (IF in_position THEN Prices ELSE {0}),
          lo \in (IF in_position THEN Prices ELSE {0}),
          c0 \in (IF in_position THEN Prices ELSE {0}) :
          /\ lo <= c0 /\ c0 <= hi
          /\ (in_position /\ open_[i] # 0) => (lo <= open_[i] /\ open_[i] <= hi)
          /\ \E x \in (IF in_position /\ ~StopHit(hi, lo) /\ ~TpHit(hi, lo)
                       THEN BOOLEAN ELSE {FALSE}) :
             \E xb \in {ExitBlock(hi, lo, c0, x)} :
             \E e \in (IF ~in_position \/ xb.closing THEN BOOLEAN ELSE {FALSE}) :
             \E on \in (IF ReadsOpen(xb, e) THEN Prices ELSE {0}) :
             \E nb \in {EntryBlock(xb, e, on)} :
             \E cl \in (IF in_position THEN {c0}
                        ELSE IF nb.path = "open" THEN Prices ELSE {0}) :
                Iterate(hi, lo, cl, e, x, on, xb, nb)
    /\ i' = i + 1
    /\ UNCHANGED <<params, pc, driverVars, callVars>>

(* return {"equity": equity, "trades": trades}, line 180 *)
Return ==
    /\ pc = "loop"
    /\ i = n
    /\ pc' = "done"
    /\ UNCHANGED <<params, i, locals, equity, trades, inputs, driverVars, callVars>>

Next == LoopIter \/ Return

Spec == Init /\ [][Next]_vars

----------------------------------------------------------------------------
(* run_backtest, lines 30-136. *)

BatchKeys == {"k1", "k2"}

(* The days of a run, by what the driver does with them: bars is           *)
(* len(day_df), signals what translate_strategy gives ("raises", "none"    *)
(* when no entry is true, "some"), key the value of _batch_key, vbt what   *)
(* Portfolio.from_signals does on the day's data.                          *)
Days ==
    {[bars |-> MinBars - 1, signals |-> "some", key |-> "k1", vbt |-> "ok"]}
    \cup {[bars |-> MinBars, signals |-> sg, key |-> "k1", vbt |-> "ok"] :
            sg \in {"raises", "none"}}
    \cup {[bars |-> MinBars, signals |-> "some", key |-> k, vbt |-> v] :
            k \in BatchKeys, v \in {"ok", "raises"}}

(* simulate before it is called. *)
SimIdle ==
    /\ n = 0
    /\ direction = "longonly"
    /\ fees = R(0)
    /\ slippage = R(0)
    /\ sl_stop = None
    /\ sl_trail = FALSE
    /\ tp_stop = None
    /\ i = 0
    /\ pc = "idle"
    /\ realized_pnl = R(0)
    /\ in_position = FALSE
    /\ entry_price = R(0)
    /\ entry_idx = 0
    /\ entry_fee_amount = R(0)
    /\ size = R(0)
    /\ trail_extreme = R(0)
    /\ equity_len = 0
    /\ equity_last = None
    /\ trades = <<>>
    /\ bar = NoBar
    /\ open_ = [k \in 1..MaxBars |-> 0]
    /\ entries = <<>>
    /\ exits = <<>>
    /\ opened = 0

InitDriver ==
    /\ SimIdle
    /\ CallIdle
    /\ days \in [1..MaxDays -> Days]
    /\ phase = "start"
    /\ signal_inputs = <<>>
    /\ future_map = {}
    /\ prepared = <<>>
    /\ batches = <<>>
    /\ batch_i = 0
    /\ all_trades = <<>>
    /\ all_candles = <<>>
    /\ all_equity = <<>>
    /\ day_results = <<>>

(* the days in group order *)
GroupOrder == [d \in 1..MaxDays |-> d]

(* _batch_key, lines 153-164 *)
BatchKeyOf(d) == days[d].key

(* batches[key].append(item), lines 80-84, on a dict kept in the order     *)
(* its keys were inserted                                                  *)
AddToBatch(bs, d) ==
    IF \E k \in 1..Len(bs) : bs[k].key = BatchKeyOf(d)
    THEN [k \in 1..Len(bs) |->
            IF bs[k].key = BatchKeyOf(d)
            THEN [bs[k] EXCEPT !.items = Append(@, d)]
            ELSE bs[k]]
    ELSE Append(bs, [key |-> BatchKeyOf(d), items |-> <<d>>])

RECURSIVE GroupByKey(_, _)
GroupByKey(bs, items) ==
    IF items = <<>> THEN bs
    ELSE GroupByKey(AddToBatch(bs, Head(items)), Tail(items))

(* the exception of the portfolio call not caught *)
ProcessSinglePreparedNoCatch(d) == d

(* _process_single_prepared, lines 279-355: None when the call raises;     *)
(* None is kept as 0                                                       *)
ProcessSinglePrepared(d) == IF days[d].vbt = "raises" THEN 0 ELSE d

(* _process_batch, lines 171-272: one call for the batch, the days one by  *)
(* one when it raises                                                      *)
ProcessBatch(items) ==
    IF \E k \in 1..Len(items) : days[items[k]].vbt = "raises"
    THEN [k \in 1..Len(items) |-> ProcessSinglePrepared(items[k])]
    ELSE items

(* results, lines 98-104 *)
BatchResults(items) ==
    IF Len(items) >= MIN_BATCH_SIZE
    THEN ProcessBatch(items)
    ELSE [k \in 1..Len(items) |-> ProcessSinglePrepared(items[k])]

(* the results that are not None, lines 109-111 *)
Kept(results) == SelectSeq(results, LAMBDA r : r # 0)

(* Phase 1, lines 51-66: the days with 5 bars or more, one future each *)
SubmitAll ==
    /\ phase = "start"
    /\ signal_inputs' = SelectSeq(GroupOrder, LAMBDA d : days[d].bars >= MinBars)
    /\ future_map' = {d \in 1..MaxDays : days[d].bars >= MinBars}
    /\ phase' = "signals"
    /\ UNCHANGED <<callVars, simVars, days, prepared, batches, batch_i, outputs>>

(* one turn of `for future in as_completed(future_map)`, lines 67-75 *)
Complete ==
    /\ phase = "signals"
    /\ \E d \in future_map :
          /\ future_map' = future_map \ {d}
          /\ prepared' = IF days[d].signals = "some"
                         THEN Append(prepared, d)
                         ELSE prepared
    /\ UNCHANGED <<callVars, simVars, days, phase, signal_inputs, batches, batch_i, outputs>>

(* Phase 2, lines 80-84, once every future was consumed *)
GroupBatches ==
    /\ phase = "signals"
    /\ future_map = {}
    /\ batches' = GroupByKey(<<>>, prepared)
    /\ phase' = "batches"
    /\ UNCHANGED <<callVars, simVars, days, signal_inputs, future_map, prepared, batch_i,
                   outputs>>

(* one turn of `for batch_key, batch_items in batches.items()`, 96-115 *)
RunBatch ==
    /\ phase = "batches"
    /\ batch_i < Len(batches)
    /\ \E kept \in {Kept(BatchResults(batches[batch_i + 1].items))} :
          /\ all_candles' = all_candles \o kept
          /\ all_trades' = all_trades \o kept
          /\ all_equity' = all_equity \o kept
          /\ day_results' = day_results \o kept
    /\ batch_i' = batch_i + 1
    /\ UNCHANGED <<callVars, simVars, days, phase, signal_inputs, future_map, prepared,
                   batches>>

(* the return of lines 128-136 *)
ReturnResult ==
    /\ phase = "batches"
    /\ batch_i = Len(batches)
    /\ phase' = "done"
    /\ UNCHANGED <<callVars, simVars, days, signal_inputs, future_map, prepared, batches,
                   batch_i, outputs>>

NextDriver == SubmitAll \/ Complete \/ GroupBatches \/ RunBatch \/ ReturnResult

SpecDriver == InitDriver /\ [][NextDriver]_vars

----------------------------------------------------------------------------
(* Properties of simulate.                                                 *)
(* Bar k of the arrays is element k + 1 of the sequences entries, exits.   *)

IterStep == pc = "loop" /\ i' = i + 1
ClosedNow == Len(trades') = Len(trades) + 1
LastTrade == trades[Len(trades)]
NoStops == sl_stop = None /\ tp_stop = None

(* C1: on a bar where a position is open at most one exit is recorded and  *)
(* its reason follows stop-loss (SL / Trailing) > TP > Signal > EOD: when  *)
(* the stop condition holds the trade closes at the stop's fill with the   *)
(* stop's reason whatever the take-profit test, exits[i] and i are; the    *)
(* take-profit wins over Signal and EOD; Signal wins over EOD; with none   *)
(* of them, nothing is recorded.                                           *)
C1_ExitPriority ==
    [][(IterStep /\ in_position) =>
        LET hi == bar'.high
            lo == bar'.low
            cl == bar'.close
            t == trades'[Len(trades')]
            ClosedBy(reason, fill) ==
                /\ ClosedNow
                /\ t.exit_idx = i
                /\ t.exit_reason = reason
                /\ t.exit_price = NetExit(fill)
        IN  /\ Len(trades') <= Len(trades) + 1
            /\ SubSeq(trades', 1, Len(trades)) = trades
            /\ StopHit(hi, lo) =>
                 ClosedBy(IF sl_trail THEN "Trailing" ELSE "SL", StopFill(hi, lo))
            /\ (~StopHit(hi, lo) /\ TpHit(hi, lo)) => ClosedBy("TP", TpFill(hi, lo))
            /\ (~StopHit(hi, lo) /\ ~TpHit(hi, lo) /\ exits'[i + 1] = "true") =>
                 ClosedBy("Signal", R(cl))
            /\ (~StopHit(hi, lo) /\ ~TpHit(hi, lo) /\ exits'[i + 1] = "false") =>
                 IF i = n - 1 THEN ClosedBy("EOD", R(cl)) ELSE trades' = trades
      ]_vars

(* the take-profit level of trade t is touched by the bar b *)
TpTouched(t, b) ==
    /\ tp_stop # None
    /\ IF is_long THEN RLe(RMul(t.entry_price, RAdd(R(1), tp_stop)), R(b.high))
                  ELSE RLe(R(b.low), RMul(t.entry_price, RSub(R(1), tp_stop)))

(* a stop closed the position on the last bar of the day, on which the     *)
(* take-profit level was touched as well                                   *)
C1_Witness ==
    /\ Len(trades) > 0
    /\ i = n
    /\ LastTrade.exit_idx = n - 1
    /\ LastTrade.exit_reason \in {"SL", "Trailing"}
    /\ TpTouched(LastTrade, bar)

(* C2 as claimed: every trade has exit_idx > entry_idx. *)
C2_Original ==
    \A k \in 1..Len(trades) : trades[k].exit_idx > trades[k].entry_idx

(* C2 amended: every trade has exit_idx >= entry_idx; a position can be    *)
(* closed on the bar recorded as its entry bar, never before it.           *)
C2_ExitNotBeforeEntry ==
    \A k \in 1..Len(trades) : trades[k].exit_idx >= trades[k].entry_idx

(* a trade closed on its entry bar *)
C2_Witness ==
    \E k \in 1..Len(trades) : trades[k].exit_idx = trades[k].entry_idx

(* the signals read so far are those of an empty strategy: none is false *)
EmptyStrategy ==
    /\ NoStops
    /\ \A k \in 1..Len(entries) : entries[k] # "false" /\ exits[k] # "false"

(* C3 as claimed: an empty strategy gives exactly one trade, opened and    *)
(* closed at bar 1 by a Signal exit, and no trade when N < 3.              *)
C3_Original ==
    (pc = "done" /\ EmptyStrategy) =>
        IF n < 3 THEN trades = <<>>
        ELSE /\ Len(trades) = 1
             /\ trades[1].entry_idx = 1
             /\ trades[1].exit_idx = 1
             /\ trades[1].exit_reason = "Signal"

(* C3 amended: an empty strategy gives no trade when N < 2; otherwise the  *)
(* k-th trade is opened at bar k and closed at bar k by a Signal exit (the *)
(* first at bar 1), a new position being opened on every bar before the   *)
(* last while init_cash + realized_pnl and the fill price stay positive:   *)
(* at most N - 1 trades, at least one unless the position is short with    *)
(* slippage >= 1, and N - 1 trades for a long position with fees = 0 and   *)
(* slippage < 1.                                                           *)
C3_EmptyStrategy ==
    (pc = "done" /\ EmptyStrategy) =>
        /\ n < 2 => trades = <<>>
        /\ \A k \in 1..Len(trades) :
              /\ trades[k].entry_idx = k
              /\ trades[k].exit_idx = k
              /\ trades[k].exit_reason = "Signal"
        /\ n >= 2 => Len(trades) <= n - 1
        /\ (n >= 2 /\ (is_long \/ RLt(slippage, R(1)))) => Len(trades) >= 1
        /\ (n >= 2 /\ is_long /\ fees = R(0) /\ RLt(slippage, R(1))) =>
              Len(trades) = n - 1

(* an empty strategy over three bars has traded twice *)
C3_Witness ==
    pc = "done" /\ EmptyStrategy /\ n = 3 /\ Len(trades) = 2

(* C4 as claimed: equity[0] equals init_cash on every input. *)
C4_Original ==
    equity_len = 1 => equity_last = init_cash

(* C4 amended: equity[0] equals init_cash when no position is opened on    *)
(* bar 0; when the signal on bar 0 opens a position, equity[0] is          *)
(* init_cash - entry_fee_amount + (close[0] - entry_price) * size for long *)
(* and init_cash - entry_fee_amount + (entry_price - close[0]) * size for  *)
(* short.                                                                  *)
C4_FirstEquity ==
    equity_len = 1 =>
        IF in_position
        THEN LET move == IF is_long THEN RSub(R(bar.close), entry_price)
                                    ELSE RSub(entry_price, R(bar.close))
             IN  equity_last =
                   RAdd(RSub(init_cash, entry_fee_amount), RMul(move, size))
        ELSE equity_last = init_cash

(* a position opened on bar 0 with a fee, filled away from close[0] *)
C4_Witness ==
    /\ equity_len = 1
    /\ in_position
    /\ fees # R(0)
    /\ entry_price # R(bar.close)
    /\ equity_last # init_cash

(* the position was opened by this iteration *)
OpenedNow == in_position' /\ (~in_position \/ ClosedNow)

(* the fill of an entry at the open o: o adjusted by slippage *)
SlippedOpen(o) ==
    IF is_long THEN RMul(R(o), RAdd(R(1), slippage))
               ELSE RMul(R(o), RSub(R(1), slippage))

(* C6 as claimed: an entry signal on a bar where the position remains open *)
(* is ignored, and when a position is closed on bar i with entries[i] true *)
(* and i < N - 1 a new position is opened in that same iteration, filled   *)
(* at open[i+1].  Stated for the runs with fees = 0, where no fee enters   *)
(* realized_pnl.                                                           *)
C6_Original ==
    [][(IterStep /\ in_position /\ fees = R(0)) =>
        /\ ~ClosedNow =>
             /\ in_position'
             /\ entry_idx' = entry_idx
             /\ entry_price' = entry_price
             /\ size' = size
             /\ opened' = opened
        /\ (ClosedNow /\ entries'[i + 1] = "true" /\ i < n - 1) =>
             /\ in_position'
             /\ entry_idx' = i + 1
             /\ entry_price' = SlippedOpen(open_'[i + 1])
             /\ opened' = opened + 1
      ]_vars

(* C6 amended: as claimed, the new position being opened in the same       *)
(* iteration provided the cash left after the exit, init_cash +            *)
(* realized_pnl, the slippage-adjusted fill price and the resulting size   *)
(* are positive; otherwise no position is opened.                          *)
C6_ExitBeforeEntry ==
    [][(IterStep /\ in_position) =>
        /\ ~ClosedNow =>
             /\ in_position'
             /\ entry_idx' = entry_idx
             /\ entry_price' = entry_price
             /\ size' = size
             /\ opened' = opened
        /\ (ClosedNow /\ entries'[i + 1] = "true" /\ i < n - 1) =>
             LET t == trades'[Len(trades')]
                 cash == RAdd(init_cash, RAdd(realized_pnl, t.pnl))
                 fill == SlippedOpen(open_'[i + 1])
             IN  IF /\ RLt(R(0), cash)
                    /\ RLt(R(0), fill)
                    /\ RLt(R(0), RDiv(cash, RMul(fill, RAdd(R(1), fees))))
                 THEN /\ open_'[i + 1] \in Prices
                      /\ in_position'
                      /\ entry_idx' = i + 1
                      /\ entry_price' = fill
                      /\ opened' = opened + 1
                 ELSE /\ RLt(R(0), cash) => open_'[i + 1] \in Prices
                      /\ ~in_position'
                      /\ opened' = opened
      ]_vars

(* a position closed on bar i - 1 and reopened by the same iteration *)
C6_Witness ==
    /\ Len(trades) > 0
    /\ LastTrade.exit_idx = i - 1
    /\ entries[i] = "true"
    /\ in_position
    /\ entry_idx = i
    /\ entry_price = SlippedOpen(open_[i])

(* C7: an entry signal on bar i opens a position only if i < N - 1; the    *)
(* position records entry_idx = i + 1 and fills at open[i+1] adjusted by   *)
(* slippage; every trade has 1 <= entry_idx <= N - 1 and the last bar      *)
(* never opens a position.                                                 *)
C7_EntryNextBar ==
    /\ [][(IterStep /\ OpenedNow) =>
            /\ i < n - 1
            /\ entries'[i + 1] = "true"
            /\ entry_idx' = i + 1
            /\ entry_price' = SlippedOpen(open_'[i + 1])
         ]_vars
    /\ [][(IterStep /\ i = n - 1) => (~in_position' /\ opened' = opened)]_vars
    /\ [](\A k \in 1..Len(trades) :
             trades[k].entry_idx >= 1 /\ trades[k].entry_idx <= n - 1)

(* a trade entered on the last bar, bar N - 1, filled with slippage *)
C7_Witness ==
    /\ pc = "done"
    /\ n = MaxBars
    /\ slippage # R(0)
    /\ Len(trades) > 0
    /\ LastTrade.entry_idx = n - 1
    /\ LastTrade.entry_price = SlippedOpen(open_[n - 1])

(* C8: when simulate returns no position is open: every position opened   *)
(* was closed by a recorded trade with exit_idx <= N - 1, so there are as  *)
(* many trades as entries taken.                                           *)
C8_AllClosed ==
    /\ Len(trades) + (IF in_position THEN 1 ELSE 0) = opened
    /\ pc = "done" =>
         /\ ~in_position
         /\ Len(trades) = opened
         /\ \A k \in 1..Len(trades) : trades[k].exit_idx <= n - 1

(* two positions taken, the second liquidated at the end of the day *)
C8_Witness ==
    /\ pc = "done"
    /\ opened = 2
    /\ LastTrade.exit_reason = "EOD"
    /\ LastTrade.exit_idx = n - 1

(* fees = 0, slippage = 0, no stop, no target, entries[0] true and no exit *)
(* signal among those read                                                 *)
BuyAndHold ==
    /\ fees = R(0) /\ slippage = R(0) /\ NoStops
    /\ Len(entries) >= 1 /\ entries[1] = "true"
    /\ \A k \in 1..Len(exits) : exits[k] # "true"

C10_ExitReasons ==
    /\ [](\A k \in 1..Len(trades) :
            /\ trades[k].exit_reason \in {"Signal", "SL", "TP", "Trailing", "EOD"}
            /\ trades[k].exit_reason = "EOD" => trades[k].exit_idx = n - 1
            /\ trades[k].exit_reason = "SL" => (~sl_trail /\ sl_stop # None)
            /\ trades[k].exit_reason = "Trailing" => (sl_trail /\ sl_stop # None))
    /\ [][(IterStep /\ in_position /\ i = n - 1) =>
            /\ ClosedNow
            /\ trades'[Len(trades')].exit_reason = "EOD" <=>
                 /\ ~StopHit(bar'.high, bar'.low)
                 /\ ~TpHit(bar'.high, bar'.low)
                 /\ exits'[i + 1] = "false"
         ]_vars

(* a day with a trailing-stop exit followed by a forced close at the end *)
C10_Witness ==
    /\ pc = "done"
    /\ Len(trades) = 2
    /\ trades[1].exit_reason = "Trailing"
    /\ trades[2].exit_reason = "EOD"

(* a trailing stop is configured *)
Trailing == sl_stop # None /\ sl_trail

(* C11: with a trailing stop, trail_extreme is the entry price when the    *)
(* position opens; on every bar where the position is open the bar's high  *)
(* (low for short) is folded in, trail_extreme becoming the running max    *)
(* (min), so that it and the stop level trail_extreme * (1 -/+ sl_stop)    *)
(* never move against the position; the stop test of the bar is made on    *)
(* the folded value.                                                       *)
C11_TrailRatchet ==
    [][(IterStep /\ Trailing) =>
        LET hi == bar'.high
            lo == bar'.low
            folded == IF is_long THEN RMax(trail_extreme, R(hi))
                                 ELSE RMin(trail_extreme, R(lo))
            level(t) == IF is_long THEN RMul(t, RSub(R(1), sl_stop))
                                   ELSE RMul(t, RAdd(R(1), sl_stop))
            hit == IF is_long THEN RLe(R(lo), level(folded))
                              ELSE RLe(level(folded), R(hi))
        IN  /\ OpenedNow => trail_extreme' = entry_price'
            /\ (in_position /\ ~OpenedNow) =>
                  /\ trail_extreme' = folded
                  /\ IF is_long THEN RLe(trail_extreme, trail_extreme')
                                ELSE RLe(trail_extreme', trail_extreme)
                  /\ IF is_long THEN RLe(level(trail_extreme), level(trail_extreme'))
                                ELSE RLe(level(trail_extreme'), level(trail_extreme))
            /\ in_position =>
                  (hit <=> (ClosedNow /\ trades'[Len(trades')].exit_reason = "Trailing"))
      ]_vars

(* a long position whose trailing extreme has advanced above its entry *)
C11_Witness ==
    /\ Trailing
    /\ in_position
    /\ is_long
    /\ RLt(entry_price, trail_extreme)

----------------------------------------------------------------------------
(* Properties of run_backtest. *)

Ascending(seq) == \A a, b \in 1..Len(seq) : a < b => seq[a] < seq[b]

(* C5: the result lists of run_backtest keep the days in the order of the  *)
(* input (ticker, date) groups, whatever the order in which the signal     *)
(* workers complete and whatever the grouping of the days into batches.    *)
C5_InputOrder ==
    phase = "done" =>
        /\ Ascending(day_results)
        /\ Ascending(all_candles)
        /\ Ascending(all_equity)
        /\ Ascending(all_trades)

(* the days of s, as a set *)
Range(seq) == {seq[k] : k \in 1..Len(seq)}

(* a day that is not skipped: 5 bars or more, signals translated with an   *)
(* entry among them, portfolio call returning                              *)
Simulated(d) ==
    /\ days[d].bars >= MinBars
    /\ days[d].signals = "some"
    /\ days[d].vbt = "ok"

(* C13: a day with fewer than 5 bars, whose translator raises, without a   *)
(* true entry signal or whose simulation raises is in none of the output   *)
(* lists, and the run goes on: when run_backtest returns, each of the      *)
(* lists holds every other day once.                                       *)
C13_SkippedDays ==
    \A out \in {all_candles, all_trades, all_equity, day_results} :
        /\ \A d \in Range(out) : Simulated(d)
        /\ phase = "done" =>
              /\ Range(out) = {d \in 1..MaxDays : Simulated(d)}
              /\ Len(out) = Cardinality(Range(out))

(* a run that skipped a day whose translator raised and a day whose        *)
(* simulation raised, and returned the third                               *)
C13_Witness ==
    /\ phase = "done"
    /\ Len(day_results) = 1
    /\ \E d \in 1..MaxDays : days[d].signals = "raises"
    /\ \E d \in 1..MaxDays : days[d].vbt = "raises"

----------------------------------------------------------------------------
(* translate_strategy, strategy_engine.py lines 11-75: the signals of a    *)
(* condition block evaluated on its timeframe and put back on the day's    *)
(* 1-minute bars.  A day is the sequence of the minutes of its bars, in    *)
(* increasing order; its index is 0..N-1 (run_backtest resets it).         *)

(* the least element of a non-empty set of numbers *)
Least(S) == CHOOSE x \in S : \A y \in S : x <= y

(* sort_values("timestamp"): the elements of S in increasing order *)
RECURSIVE SortedSeq(_)
SortedSeq(S) ==
    IF S = {} THEN <<>> ELSE <<Least(S)>> \o SortedSeq(S \ {Least(S)})

Timeframes == {"1m", "2m", "5m"}

(* tf_map.get(timeframe, "1min"), lines 82-83, in minutes *)
Freq(timeframe) ==
    CASE timeframe = "5m" -> 5
      [] timeframe = "15m" -> 15
      [] timeframe = "30m" -> 30
      [] timeframe = "1h" -> 60
      [] timeframe = "1d" -> 1440
      [] OTHER -> 1

(* _resample_if_needed, lines 78-95: one row per non-empty bucket, in      *)
(* bucket order; a row is kept as the bucket's number.  The row labels are *)
(* dropped by reset_index(drop=True): row k has label k - 1.               *)
ResampleIfNeeded(timestamps, timeframe) ==
    IF timeframe = "1m" THEN timestamps
    ELSE SortedSeq({timestamps[k] \div Freq(timeframe) :
                      k \in 1..Len(timestamps)})

(* series.reindex(target, method="ffill").fillna(False), lines 60, 62, for *)
(* a series labelled 0..Len(series)-1 and the target labels 0..length-1:   *)
(* the value at the greatest label not above the target label, False when  *)
(* there is none                                                           *)
ReindexFfill(series, length) ==
    [j \in 1..length |->
        LET below == {k \in 1..Len(series) : k - 1 <= j - 1}
        IN  IF below = {} THEN FALSE
            ELSE series[CHOOSE k \in below : \A l \in below : l <= k]]

InitTranslate ==
    /\ SimIdle
    /\ DriverIdle
    /\ \E S \in (SUBSET (0..MaxMinute)) \ {{}} : \E tf \in Timeframes :
          call = [fn |-> "translate_strategy",
                  timestamps |-> SortedSeq(S), entry_tf |-> tf]
    /\ ret = NoRet

(* lines 36-62 for the entry block: entry_df, the series evaluated on      *)
(* entry_df (any value on each of its rows), entries over the day's index  *)
TranslateStrategy ==
    /\ call.fn = "translate_strategy"
    /\ ret = NoRet
    /\ \E entry_df \in {ResampleIfNeeded(call.timestamps, call.entry_tf)} :
       \E evaluated \in [1..Len(entry_df) -> BOOLEAN] :
          ret' = [state |-> "done",
                  entry_df |-> entry_df,
                  evaluated |-> evaluated,
                  entries |-> IF call.entry_tf # "1m"
                              THEN ReindexFfill(evaluated, Len(call.timestamps))
                              ELSE evaluated]
    /\ UNCHANGED <<simVars, driverVars, call>>

NextTranslate == TranslateStrategy

SpecTranslate == InitTranslate /\ [][NextTranslate]_vars

(* the row of entry_df holding the bucket of the day's bar j *)
BucketRow(j) ==
    CHOOSE k \in 1..Len(ret.entry_df) :
        ret.entry_df[k] = call.timestamps[j] \div Freq(call.entry_tf)

(* C12: when the block's timeframe is coarser than 1m, the signal at each  *)
(* 1-minute bar is the value evaluated on the resampled bucket containing  *)
(* that bar.                                                               *)
C12_BucketValue ==
    (call.fn = "translate_strategy" /\ ret # NoRet /\ call.entry_tf # "1m") =>
        \A j \in 1..Len(call.timestamps) :
            ret.entries[j] = ret.evaluated[BucketRow(j)]

----------------------------------------------------------------------------
(* _compute_global_equity_and_drawdown, backtest_service.py lines 518-558. *)
(* A day's equity is the sequence of the values of its points, in whole    *)
(* units of cash, on which np.round(values, 2) changes nothing.  The       *)
(* drawdown is kept as the exact percentage, before np.round(dd_pct, 4).   *)

EqValues == {InitCash, InitCash + 100}

(* the equity lists of a day: up to MaxPoints points *)
DayCurves == UNION {[1..k -> EqValues] : k \in 0..MaxPoints}

(* all_equity: up to MaxDays days *)
EquityLists == UNION {[1..k -> DayCurves] : k \in 0..MaxDays}

(* every day rebased on init_cash *)
OffsetRebase(day_arrays, carry, day_start, ic) == ic - day_start

(* the first day left where it is *)
OffsetFirstUnshifted(day_arrays, carry, day_start, ic) ==
    IF day_arrays = <<>> THEN 0 ELSE carry - day_start

(* offset, line 534 *)
Offset(day_arrays, carry, day_start, ic) ==
    IF day_arrays = <<>> THEN carry - day_start + ic ELSE carry - day_start

(* the loop of lines 528-537 over the days left, from day_arrays and carry *)
RECURSIVE ChainDays(_, _, _, _)
ChainDays(rest, day_arrays, carry, ic) ==
    IF rest = <<>> THEN day_arrays
    ELSE LET points == Head(rest)
         IN  IF points = <<>>
             THEN ChainDays(Tail(rest), day_arrays, carry, ic)
             ELSE LET offset == Offset(day_arrays, carry, points[1], ic)
                      day_vals == [k \in 1..Len(points) |-> points[k] + offset]
                  IN  ChainDays(Tail(rest), Append(day_arrays, day_vals),
                                day_vals[Len(day_vals)], ic)

(* np.concatenate, line 542 *)
RECURSIVE Concatenate(_)
Concatenate(arrays) ==
    IF arrays = <<>> THEN <<>> ELSE Head(arrays) \o Concatenate(Tail(arrays))

(* np.maximum.accumulate, line 543 *)
RunningMax(values) ==
    [k \in 1..Len(values) |->
        CHOOSE m \in {values[j] : j \in 1..k} :
            \A j \in 1..k : values[j] <= m]

(* dd_pct, line 544 *)
DrawdownPct(values) ==
    LET running_max == RunningMax(values)
    IN  [k \in 1..Len(values) |->
            IF running_max[k] > 0
            THEN RMul(RSub(Frac(values[k], running_max[k]), R(1)), R(100))
            ELSE R(0)]

InitGlobalEquity ==
    /\ SimIdle
    /\ DriverIdle
    /\ \E eq \in EquityLists :
          call = [fn |-> "_compute_global_equity_and_drawdown",
                  all_equity |-> eq, init_cash |-> InitCash]
    /\ ret = NoRet

(* the call: day_arrays is kept next to the two lists returned *)
ComputeGlobalEquityAndDrawdown ==
    /\ call.fn = "_compute_global_equity_and_drawdown"
    /\ ret = NoRet
    /\ \E day_arrays \in {ChainDays(call.all_equity, <<>>, 0, call.init_cash)} :
       \E values \in {Concatenate(day_arrays)} :
          ret' = [state |-> "done",
                  day_arrays |-> day_arrays,
                  global_equity |-> values,
                  global_drawdown |-> DrawdownPct(values)]
    /\ UNCHANGED <<simVars, driverVars, call>>

NextGlobalEquity == ComputeGlobalEquityAndDrawdown

SpecGlobalEquity == InitGlobalEquity /\ [][NextGlobalEquity]_vars

(* the days of all_equity that have points, in order *)
NonEmptyDays == SelectSeq(call.all_equity, LAMBDA points : points # <<>>)

Chained == call.fn = "_compute_global_equity_and_drawdown" /\ ret # NoRet

(* C14: in the chained global equity the first point of a non-empty day    *)
(* has the value of the last point of the non-empty day before it, each    *)
(* day keeping its own moves; days without points are skipped: the chained *)
(* curve is made of the non-empty days only, one after the other.          *)
C14_Continuity ==
    Chained =>
        LET arrays == ret.day_arrays
        IN  /\ Len(arrays) = Len(NonEmptyDays)
            /\ ret.global_equity = Concatenate(arrays)
            /\ \A k \in 1..Len(arrays) :
                  /\ Len(arrays[k]) = Len(NonEmptyDays[k])
                  /\ \A j \in 1..Len(arrays[k]) :
                        arrays[k][j] - arrays[k][1] =
                            NonEmptyDays[k][j] - NonEmptyDays[k][1]
            /\ \A k \in 1..(Len(arrays) - 1) :
                  arrays[k + 1][1] = arrays[k][Len(arrays[k])]

(* a day ending above its start, a day without points, then a day that     *)
(* starts lower than the first ended                                       *)
C14_Witness ==
    /\ Chained
    /\ Len(call.all_equity) = 3
    /\ call.all_equity[1] = <<InitCash, InitCash + 100>>
    /\ call.all_equity[2] = <<>>
    /\ call.all_equity[3] = <<InitCash, InitCash + 100>>
    /\ ret.global_equity =
          <<InitCash, InitCash + 100, InitCash + 100, InitCash + 200>>

----------------------------------------------------------------------------
(* _extract_trades_from_records, backtest_service.py lines 362-429: the    *)
(* exit reasons and the R multiples of the trade records of a day, from    *)
(* the risk management block of the strategy.  An absent value is None.    *)

HardStopTypes ==
    {"Percentage", "Fixed Amount", "ATR Multiplier", "Market Structure (HOD/LOD)"}

PctValues == {R(0), R(3)}

(* the risk_management blocks *)
RiskBlocks ==
    [use_hard_stop : BOOLEAN,
     hard_stop : [type : HardStopTypes, value : PctValues],
     trailing_active : BOOLEAN,
     use_take_profit : BOOLEAN,
     take_profit_value : PctValues \cup {None}]

(* the rows of records_readable: prices around an entry at 100, exits on   *)
(* the first bar, the bar before the last and the last bar of the day      *)
TradeRows ==
    [entry_price : {R(100)},
     exit_price : {R(95), R(97), R(100), R(103), R(105)},
     direction : {"Long", "Short"},
     exit_idx : {0, MinBars - 2, MinBars - 1}]

(* "long" in d.lower(), lines 443, 489 *)
IsLongRow(t) == t.direction = "Long"

(* x and x > 0 for an optional number, lines 454, 463, 485 *)
Positive(x) == x # None /\ RLt(R(0), x)

(* tp_pct, lines 450-453 *)
TpPct(rm) == IF rm.use_take_profit THEN rm.take_profit_value ELSE None

(* sl_pct, lines 459-462 and 482-483 *)
SlPct(rm) == IF rm.use_hard_stop THEN rm.hard_stop.value ELSE None

(* tp_long | tp_short, lines 455-456 *)
TpReached(t, tp_pct) ==
    IF IsLongRow(t)
    THEN RLe(RMul(t.entry_price, RAdd(R(1), RDiv(tp_pct, R(100)))), t.exit_price)
    ELSE RLe(t.exit_price, RMul(t.entry_price, RSub(R(1), RDiv(tp_pct, R(100)))))

(* sl_long | sl_short, lines 464-465 *)
SlReached(t, sl_pct) ==
    IF IsLongRow(t)
    THEN RLe(t.exit_price, RMul(t.entry_price, RSub(R(1), RDiv(sl_pct, R(100)))))
    ELSE RLe(RMul(t.entry_price, RAdd(R(1), RDiv(sl_pct, R(100)))), t.exit_price)

(* the end of day written first, under the other reasons *)
DetermineExitReasonEodFirst(t, total_bars, rm) ==
    LET r0 == IF total_bars > 0 /\ t.exit_idx >= total_bars - 1 THEN "EOD" ELSE "Signal"
        r1 == IF rm.trailing_active THEN "Trailing" ELSE r0
        r2 == IF Positive(TpPct(rm)) /\ TpReached(t, TpPct(rm)) THEN "TP" ELSE r1
    IN  IF Positive(SlPct(rm)) /\ SlReached(t, SlPct(rm)) THEN "SL" ELSE r2

(* _determine_exit_reasons_vec, lines 432-471, on one row: the successive  *)
(* assignments to reasons                                                  *)
DetermineExitReason(t, total_bars, rm) ==
    LET r0 == "Signal"
        r1 == IF rm.trailing_active THEN "Trailing" ELSE r0
        r2 == IF Positive(TpPct(rm)) /\ TpReached(t, TpPct(rm)) THEN "TP" ELSE r1
        r3 == IF Positive(SlPct(rm)) /\ SlReached(t, SlPct(rm)) THEN "SL" ELSE r2
    IN  IF total_bars > 0 /\ t.exit_idx >= total_bars - 1 THEN "EOD" ELSE r3

(* np.round(x, 2), line 493: to the nearest hundredth, ties to the even one *)
Round2(x) ==
    LET p == x[1] * 100
        q == x[2]
        f == p \div q
        twice == 2 * (p - f * q)
        up == twice > q \/ (twice = q /\ f % 2 = 1)
    IN  Frac(IF up THEN f + 1 ELSE f, 100)

(* _compute_r_multiples_vec, lines 474-494, on one row *)
ComputeRMultiple(t, rm) ==
    LET sl_pct == SlPct(rm)
    IN  IF ~Positive(sl_pct) THEN None
        ELSE LET r_risk == RMul(t.entry_price, RDiv(sl_pct, R(100)))
                 pnl_per_share == IF IsLongRow(t)
                                  THEN RSub(t.exit_price, t.entry_price)
                                  ELSE RSub(t.entry_price, t.exit_price)
             IN  IF RLt(R(0), r_risk)
                 THEN Round2(RDiv(pnl_per_share, r_risk))
                 ELSE None

InitExtract ==
    /\ SimIdle
    /\ DriverIdle
    /\ \E records \in {<<>>} \cup {<<t>> : t \in TradeRows} :
       \E rm \in RiskBlocks :
          call = [fn |-> "_extract_trades_from_records",
                  records |-> records, total_bars |-> MinBars,
                  risk_management |-> rm]
    /\ ret = NoRet

(* lines 401-406 and the two columns of the result, lines 422-423 *)
ExtractTradesFromRecords ==
    /\ call.fn = "_extract_trades_from_records"
    /\ ret = NoRet
    /\ ret' = [state |-> "done",
               exit_reason |->
                 [k \in 1..Len(call.records) |->
                    DetermineExitReason(call.records[k], call.total_bars,
                                        call.risk_management)],
               r_multiple |->
                 [k \in 1..Len(call.records) |->
                    ComputeRMultiple(call.records[k], call.risk_management)]]
    /\ UNCHANGED <<simVars, driverVars, call>>

NextExtract == ExtractTradesFromRecords

SpecExtract == InitExtract /\ [][NextExtract]_vars

Extracted == call.fn = "_extract_trades_from_records" /\ ret # NoRet

(* C16: the reconstructed exit reason follows EOD > SL > TP > Trailing >   *)
(* Signal: EOD for a trade exiting at the last bar whatever the prices;    *)
(* otherwise SL if a hard stop is used and the exit price is at or beyond  *)
(* entry * (1 -/+ value/100); otherwise TP if a take-profit is used and    *)
(* the exit price is at or beyond entry * (1 +/- value/100); otherwise     *)
(* Trailing if the trailing stop is active; otherwise Signal.              *)
C16_ReasonPriority ==
    Extracted =>
        \A k \in 1..Len(call.records) :
            LET t == call.records[k]
                rm == call.risk_management
                sl == rm.use_hard_stop /\ RLt(R(0), rm.hard_stop.value)
                        /\ SlReached(t, rm.hard_stop.value)
                tp == rm.use_take_profit /\ rm.take_profit_value # None
                        /\ RLt(R(0), rm.take_profit_value)
                        /\ TpReached(t, rm.take_profit_value)
            IN  ret.exit_reason[k] =
                  IF t.exit_idx = call.total_bars - 1 THEN "EOD"
                  ELSE IF sl THEN "SL"
                  ELSE IF tp THEN "TP"
                  ELSE IF rm.trailing_active THEN "Trailing"
                  ELSE "Signal"

(* a trade closed on the last bar beyond its stop level, with a trailing   *)
(* stop active, reported EOD                                               *)
C16_Witness ==
    /\ Extracted
    /\ Len(call.records) = 1
    /\ call.records[1].exit_idx = call.total_bars - 1
    /\ call.risk_management.trailing_active
    /\ call.risk_management.use_hard_stop
    /\ call.risk_management.hard_stop.value = R(3)
    /\ SlReached(call.records[1], R(3))
    /\ ret.exit_reason[1] = "EOD"

(* C17: r_multiple is computed, as round(pnl per share / (entry_price *     *)
(* sl_pct / 100), 2), only when the hard stop used is of type Percentage;  *)
(* in every other case, the other hard stop types included, it is null.    *)
C17_RMultiplePercentageOnly ==
    Extracted =>
        \A k \in 1..Len(call.records) :
            LET t == call.records[k]
                rm == call.risk_management
            IN  /\ ret.r_multiple[k] # None =>
                      /\ rm.use_hard_stop
                      /\ rm.hard_stop.type = "Percentage"
                /\ (rm.use_hard_stop /\ rm.hard_stop.type # "Percentage") =>
                      ret.r_multiple[k] = None

----------------------------------------------------------------------------
(* _evaluate_condition_group, strategy_engine.py lines 98-133, on a frame  *)
(* of SeriesLen bars.  A condition of a known type is kept with the series *)
(* its evaluator returns on the frame; the empty dict is EmptyGroup.       *)

Series == [1..SeriesLen -> BOOLEAN]

(* pd.Series(True, index=df.index), lines 106, 112, 124, 151 *)
AllTrue == [k \in 1..SeriesLen |-> TRUE]

KnownTypes == {"indicator_comparison", "price_level_distance", "candle_pattern"}

(* the single conditions: one of a known type for each series, and one of  *)
(* a type the evaluator does not know                                      *)
SingleConditions ==
    [type : {"indicator_comparison"}, series : Series]
    \cup [type : {"volume_spike"}, series : {AllTrue}]

EmptyGroup == [type |-> "empty"]

(* the groups over the children C, with up to two conditions *)
GroupsOver(C) ==
    {EmptyGroup} \cup
    [type : {"group"}, operator : {"AND", "OR"},
     conditions : {<<>>} \cup {<<c>> : c \in C} \cup {<<c, d>> : c, d \in C}]

(* the root conditions: groups of single conditions and of groups of       *)
(* single conditions                                                       *)
RootConditions == GroupsOver(SingleConditions \cup GroupsOver(SingleConditions))

(* a condition of unknown type false at every bar *)
EvaluateSingleConditionStrict(cond) ==
    IF cond.type \in KnownTypes THEN cond.series
    ELSE [k \in 1..SeriesLen |-> FALSE]

(* _evaluate_single_condition, lines 136-151 *)
EvaluateSingleCondition(cond) ==
    IF cond.type \in KnownTypes THEN cond.series ELSE AllTrue

(* combined & r, combined | r, lines 128-131 *)
Combine(operator, combined, r) ==
    IF operator = "AND"
    THEN [k \in 1..SeriesLen |-> combined[k] /\ r[k]]
    ELSE [k \in 1..SeriesLen |-> combined[k] \/ r[k]]

(* the loop of lines 126-131 over results[1:] *)
RECURSIVE Reduce(_, _, _)
Reduce(operator, combined, rest) ==
    IF rest = <<>> THEN combined
    ELSE Reduce(operator, Combine(operator, combined, Head(rest)), Tail(rest))

(* _evaluate_condition_group, lines 98-133 *)
RECURSIVE EvaluateConditionGroup(_)
EvaluateConditionGroup(group) ==
    IF group = EmptyGroup THEN AllTrue
    ELSE IF group.conditions = <<>> THEN AllTrue
    ELSE LET results ==
               [k \in 1..Len(group.conditions) |->
                  LET cond == group.conditions[k]
                  IN  IF cond.type \in {"group", "empty"}
                      THEN EvaluateConditionGroup(cond)
                      ELSE EvaluateSingleCondition(cond)]
         IN  Reduce(group.operator, Head(results), Tail(results))

InitEvaluate ==
    /\ SimIdle
    /\ DriverIdle
    /\ \E group \in RootConditions :
          call = [fn |-> "_evaluate_condition_group", group |-> group]
    /\ ret = NoRet

EvaluateRoot ==
    /\ call.fn = "_evaluate_condition_group"
    /\ ret = NoRet
    /\ ret' = [state |-> "done", series |-> EvaluateConditionGroup(call.group)]
    /\ UNCHANGED <<simVars, driverVars, call>>

NextEvaluate == EvaluateRoot

SpecEvaluate == InitEvaluate /\ [][NextEvaluate]_vars

(* what the condition c is at bar k: a group is the conjunction (AND) or   *)
(* the disjunction (OR) of its children, true when it has none; a single   *)
(* condition is its evaluator's value, true when its type is unknown       *)
RECURSIVE HoldsAt(_, _)
HoldsAt(c, k) ==
    IF c = EmptyGroup THEN TRUE
    ELSE IF c.type = "group"
    THEN IF c.conditions = <<>> THEN TRUE
         ELSE IF c.operator = "AND"
         THEN \A j \in 1..Len(c.conditions) : HoldsAt(c.conditions[j], k)
         ELSE \E j \in 1..Len(c.conditions) : HoldsAt(c.conditions[j], k)
    ELSE IF c.type \in KnownTypes THEN c.series[k]
    ELSE TRUE

Evaluated == call.fn = "_evaluate_condition_group" /\ ret # NoRet

(* C18: the evaluation of a condition tree is, at every bar, the AND or    *)
(* the OR of the children's values, nested groups included; an empty group *)
(* or condition list is true at every bar, and so is a condition of        *)
(* unknown type.                                                           *)
C18_ConditionTree ==
    Evaluated => \A k \in 1..SeriesLen : ret.series[k] = HoldsAt(call.group, k)

(* an AND of a condition of unknown type and of a nested OR of two         *)
(* conditions, true at the first bar and false at the second               *)
C18_Witness ==
    /\ Evaluated
    /\ call.group # EmptyGroup
    /\ call.group.operator = "AND"
    /\ Len(call.group.conditions) = 2
    /\ call.group.conditions[1].type = "volume_spike"
    /\ call.group.conditions[2].type = "group"
    /\ call.group.conditions[2].operator = "OR"
    /\ Len(call.group.conditions[2].conditions) = 2
    /\ ret.series[1]
    /\ ~ret.series[2]

----------------------------------------------------------------------------
(* _parse_risk_management, strategy_engine.py lines 250-289.  An absent    *)
(* key or block is None; first_close is df["close"].iloc[0] and avg_atr    *)
(* the mean of the ATR series of the day.                                  *)

NoBlock == [type |-> "absent", value |-> None]

HardStopBlocks == {NoBlock} \cup [type : HardStopTypes, value : PctValues]

TrailingBlocks ==
    [active : BOOLEAN, type : {"Percentage", "ATR Multiplier"},
     buffer_pct : {None, R(0), R(2)}]

TakeProfitBlocks ==
    {NoBlock} \cup [type : {"Percentage", "Fixed Amount"}, value : PctValues]

RiskConfigs ==
    [use_hard_stop : BOOLEAN, hard_stop : HardStopBlocks,
     trailing_stop : TrailingBlocks,
     use_take_profit : BOOLEAN, take_profit : TakeProfitBlocks]

(* x is set and not zero: the truth of an optional number, line 281 *)
Truthy(x) == x # None /\ x # R(0)

(* sl_stop after lines 260-276 *)
HardStop(risk, first_close, avg_atr) ==
    IF risk.use_hard_stop /\ risk.hard_stop # NoBlock
    THEN LET hs_type == risk.hard_stop.type
             hs_value == risk.hard_stop.value
         IN  CASE hs_type = "Percentage" -> RDiv(hs_value, R(100))
               [] hs_type = "Fixed Amount" ->
                    IF RLt(R(0), first_close) THEN RDiv(hs_value, first_close)
                    ELSE None
               [] hs_type = "ATR Multiplier" ->
                    IF RLt(R(0), first_close)
                    THEN RDiv(RMul(avg_atr, hs_value), first_close)
                    ELSE None
               [] OTHER -> None
    ELSE None

(* the hard stop kept when there is one *)
TrailingOverrideKeepHard(hard, trailing) ==
    IF trailing.active /\ trailing.type = "Percentage" /\ Truthy(trailing.buffer_pct)
         /\ hard = None
    THEN RDiv(trailing.buffer_pct, R(100))
    ELSE hard

(* sl_stop after lines 278-282, from hard, its value after line 276 *)
TrailingOverride(hard, trailing) ==
    IF trailing.active /\ trailing.type = "Percentage" /\ Truthy(trailing.buffer_pct)
    THEN RDiv(trailing.buffer_pct, R(100))
    ELSE hard

(* tp_stop, lines 284-287 *)
TakeProfit(risk) ==
    IF risk.use_take_profit /\ risk.take_profit # NoBlock
         /\ risk.take_profit.type = "Percentage"
    THEN RDiv(risk.take_profit.value, R(100))
    ELSE None

InitParseRisk ==
    /\ SimIdle
    /\ DriverIdle
    /\ \E risk \in RiskConfigs : \E first_close \in {R(0), R(100)} :
          call = [fn |-> "_parse_risk_management", risk |-> risk,
                  first_close |-> first_close, avg_atr |-> R(2)]
    /\ ret = NoRet

ParseRiskManagement ==
    /\ call.fn = "_parse_risk_management"
    /\ ret = NoRet
    /\ ret' = [state |-> "done",
               sl_stop |-> TrailingOverride(
                              HardStop(call.risk, call.first_close, call.avg_atr),
                              call.risk.trailing_stop),
               sl_trail |-> call.risk.trailing_stop.active,
               tp_stop |-> TakeProfit(call.risk)]
    /\ UNCHANGED <<simVars, driverVars, call>>

NextParseRisk == ParseRiskManagement

SpecParseRisk == InitParseRisk /\ [][NextParseRisk]_vars

Parsed == call.fn = "_parse_risk_management" /\ ret # NoRet

(* the hard stop block is read *)
HardStopUsed == call.risk.use_hard_stop /\ call.risk.hard_stop # NoBlock

(* what the claim says of the hard stop and of the take-profit, where the  *)
(* trailing stop does not replace sl_stop                                  *)
RiskCases(replaced) ==
    /\ ret.sl_trail = call.risk.trailing_stop.active
    /\ (~replaced /\ HardStopUsed) =>
          /\ call.risk.hard_stop.type = "Percentage" =>
                ret.sl_stop = RDiv(call.risk.hard_stop.value, R(100))
          /\ call.risk.hard_stop.type = "Market Structure (HOD/LOD)" =>
                ret.sl_stop = None
          /\ (call.risk.hard_stop.type = "Fixed Amount"
                 /\ RLe(call.first_close, R(0))) => ret.sl_stop = None
    /\ ret.tp_stop =
          IF call.risk.use_take_profit /\ call.risk.take_profit # NoBlock
               /\ call.risk.take_profit.type = "Percentage"
          THEN RDiv(call.risk.take_profit.value, R(100))
          ELSE None

(* C19 as claimed: an active trailing stop of type Percentage replaces     *)
(* sl_stop by buffer_pct/100 whatever the hard stop produced (stated where *)
(* buffer_pct is given).                                                   *)
C19_Original ==
    Parsed =>
        LET trailing == call.risk.trailing_stop
            replaced == trailing.active /\ trailing.type = "Percentage"
                          /\ trailing.buffer_pct # None
        IN  /\ replaced => ret.sl_stop = RDiv(trailing.buffer_pct, R(100))
            /\ RiskCases(replaced)

(* C19 amended: sl_trail is true whenever trailing_stop.active is set; an  *)
(* active trailing stop of type Percentage with a non-zero buffer_pct      *)
(* replaces sl_stop by buffer_pct/100 whatever the hard stop produced, and *)
(* with buffer_pct zero or absent sl_stop stays what the hard stop         *)
(* produced; a Percentage hard stop gives value/100, Market Structure      *)
(* None, Fixed Amount None when first_close <= 0; tp_stop is value/100     *)
(* only for type Percentage and None otherwise.                            *)
C19_RiskTranslation ==
    Parsed =>
        LET trailing == call.risk.trailing_stop
            replaced == trailing.active /\ trailing.type = "Percentage"
                          /\ trailing.buffer_pct # None
                          /\ trailing.buffer_pct # R(0)
        IN  /\ replaced => ret.sl_stop = RDiv(trailing.buffer_pct, R(100))
            /\ (~replaced /\ ~HardStopUsed) => ret.sl_stop = None
            /\ RiskCases(replaced)

(* a Percentage hard stop of 3% replaced by a trailing buffer of 2% *)
C19_Witness ==
    /\ Parsed
    /\ HardStopUsed
    /\ call.risk.hard_stop = [type |-> "Percentage", value |-> R(3)]
    /\ call.risk.trailing_stop.active
    /\ ret.sl_trail
    /\ ret.sl_stop = Frac(2, 100)

----------------------------------------------------------------------------
(* run_montecarlo, montecarlo_service.py lines 9-55.  A Shuffle step is    *)
(* one iteration of the loop of lines 21-23, rng.permutation giving any    *)
(* permutation of the PnL vector.  The curves built so far are kept in     *)
(* ret.all_curves until Summarize computes what is returned.               *)

PnlValues == {-9950, 20000}

(* the PnL vectors: 1 to MaxTrades trades *)
PnlVectors == UNION {[1..k -> PnlValues] : k \in 1..MaxTrades}

(* the permutations of 1..k *)
Perms(k) == {f \in [1..k -> 1..k] : \A a, b \in 1..k : f[a] = f[b] => a = b}

(* The arrays are float64: every addition is rounded to the significand.   *)
(* The model keeps the rounding with a decimal significand of FloatDigits  *)
(* digits, round-half-even, on whole amounts.                              *)
RECURSIVE Ulp(_)
Ulp(x) == IF x < Pow10(FloatDigits) THEN 1 ELSE 10 * Ulp(x \div 10)

Float(x) ==
    LET a == Abs(x)
        p == Ulp(a)
        q == a \div p
        r == a % p
        m == IF 2 * r > p \/ (2 * r = p /\ q % 2 = 1) THEN (q + 1) * p ELSE q * p
    IN  IF x < 0 THEN -m ELSE m

(* np.cumsum(shuffled)[k - 1], each partial sum rounded as it is stored *)
RECURSIVE CumSum(_, _)
CumSum(shuffled, k) ==
    IF k = 0 THEN 0 ELSE Float(CumSum(shuffled, k - 1) + shuffled[k])

(* the curve without the starting cash *)
CurveFromZero(shuffled, ic) ==
    [j \in 1..(Len(shuffled) + 1) |-> CumSum(shuffled, j - 1)]

(* init_cash + np.cumsum(shuffled), with the init_cash of column 0 *)
Curve(shuffled, ic) ==
    [j \in 1..(Len(shuffled) + 1) |->
        IF j = 1 THEN ic ELSE Float(ic + CumSum(shuffled, j - 1))]

(* the sequence xs of rationals with x put at its place, xs being sorted *)
RECURSIVE Insert(_, _)
Insert(x, xs) ==
    IF xs = <<>> THEN <<x>>
    ELSE IF RLe(x, Head(xs)) THEN <<x>> \o xs
    ELSE <<Head(xs)>> \o Insert(x, Tail(xs))

RECURSIVE Sorted(_)
Sorted(xs) == IF xs = <<>> THEN <<>> ELSE Insert(Head(xs), Sorted(Tail(xs)))

(* the percentile counted from the largest value *)
PercentileFromTop(xs, pct) ==
    LET a == Sorted(xs)
        h == Frac((Len(a) - 1) * (100 - pct), 100)
        lo == h[1] \div h[2]
        frac == RSub(h, R(lo))
    IN  IF lo + 1 >= Len(a) THEN a[Len(a)]
        ELSE RAdd(a[lo + 1], RMul(frac, RSub(a[lo + 2], a[lo + 1])))

(* np.percentile(xs, pct): linear interpolation between the two closest    *)
(* ranks of the sorted values                                              *)
Percentile(xs, pct) ==
    LET a == Sorted(xs)
        h == Frac((Len(a) - 1) * pct, 100)
        lo == h[1] \div h[2]
        frac == RSub(h, R(lo))
    IN  IF lo + 1 >= Len(a) THEN a[Len(a)]
        ELSE RAdd(a[lo + 1], RMul(frac, RSub(a[lo + 2], a[lo + 1])))

PctKeys == {5, 25, 50, 75, 95}

(* column j of all_curves *)
Column(all_curves, j) == [r \in 1..Len(all_curves) |-> R(all_curves[r][j])]

(* max_dds[i], lines 38-41 *)
MaxDrawdown(curve) ==
    LET running_max == RunningMax(curve)
        dd == [k \in 1..Len(curve) |->
                 Frac(curve[k] - running_max[k],
                      IF running_max[k] > 0 THEN running_max[k] ELSE 1)]
    IN  RMul(Sorted(dd)[1], R(100))

InitMonteCarlo ==
    /\ SimIdle
    /\ DriverIdle
    /\ \E pnls \in PnlVectors :
          call = [fn |-> "run_montecarlo", pnls |-> pnls,
                  init_cash |-> InitCash, simulations |-> Simulations]
    /\ ret = [state |-> "shuffling", all_curves |-> <<>>]

(* one iteration of lines 21-23 *)
Shuffle ==
    /\ call.fn = "run_montecarlo"
    /\ ret.state = "shuffling"
    /\ Len(ret.all_curves) < call.simulations
    /\ \E f \in Perms(Len(call.pnls)) :
          LET shuffled == [k \in 1..Len(call.pnls) |-> call.pnls[f[k]]]
          IN  ret' = [ret EXCEPT !.all_curves =
                         Append(@, Curve(shuffled, call.init_cash))]
    /\ UNCHANGED <<simVars, driverVars, call>>

(* lines 25-55 *)
Summarize ==
    /\ call.fn = "run_montecarlo"
    /\ ret.state = "shuffling"
    /\ Len(ret.all_curves) = call.simulations
    /\ LET all_curves == ret.all_curves
           last == Len(call.pnls) + 1
           max_dds == [r \in 1..Len(all_curves) |-> MaxDrawdown(all_curves[r])]
           ruin_count == Cardinality({r \in 1..Len(all_curves) :
                            \E j \in 1..last :
                               10 * all_curves[r][j] < call.init_cash})
       IN  ret' = [state |-> "done",
                   all_curves |-> all_curves,
                   percentiles |->
                     [pk \in PctKeys |->
                        [j \in 1..last |->
                           Round2(Percentile(Column(all_curves, j), pk))]],
                   ruin_probability |->
                     Round2(RMul(Frac(ruin_count, call.simulations), R(100))),
                   worst_drawdown |-> Round2(Sorted(max_dds)[1]),
                   median_drawdown |-> Round2(Percentile(max_dds, 50)),
                   final_balance_percentiles |->
                     [pk \in PctKeys |->
                        Round2(Percentile(Column(all_curves, last), pk))]]
    /\ UNCHANGED <<simVars, driverVars, call>>

NextMonteCarlo == Shuffle \/ Summarize

SpecMonteCarlo == InitMonteCarlo /\ [][NextMonteCarlo]_vars

Summarized == call.fn = "run_montecarlo" /\ ret.state = "done"

(* C20: at every index j of the percentile curves                          *)
(* p5[j] <= p25[j] <= p50[j] <= p75[j] <= p95[j], whatever the PnL vector  *)
(* and the permutations drawn.                                             *)
C20_PercentileOrder ==
    Summarized =>
        \A j \in 1..(Len(call.pnls) + 1) :
            /\ RLe(ret.percentiles[5][j], ret.percentiles[25][j])
            /\ RLe(ret.percentiles[25][j], ret.percentiles[50][j])
            /\ RLe(ret.percentiles[50][j], ret.percentiles[75][j])
            /\ RLe(ret.percentiles[75][j], ret.percentiles[95][j])

(* simulations that differ after the first trade: the curves spread there  *)
C20_Witness ==
    /\ Summarized
    /\ Len(call.pnls) >= 2
    /\ RLt(ret.percentiles[5][2], ret.percentiles[25][2])
    /\ RLt(ret.percentiles[25][2], ret.percentiles[95][2])

(* the sum of the first k values of xs, without rounding *)
RECURSIVE SumTo(_, _)
SumTo(xs, k) == IF k = 0 THEN 0 ELSE xs[k] + SumTo(xs, k - 1)

Permuted(xs, f) == [k \in 1..Len(xs) |-> xs[f[k]]]

(* no addition is rounded, in whatever order xs is accumulated on ic *)
ExactSums(xs, ic) ==
    \A f \in Perms(Len(xs)) : \A k \in 1..Len(xs) :
        LET s == SumTo(Permuted(xs, f), k)
        IN  Float(s) = s /\ Float(ic + s) = ic + s

(* C30 as claimed: every simulated curve starts at init_cash and ends at   *)
(* init_cash + sum(pnls), so the final balance is the same in all          *)
(* simulations and all final_balance_percentiles are equal.                *)
C30_Original ==
    Summarized =>
        LET last == Len(call.pnls) + 1
            total == call.init_cash + SumTo(call.pnls, Len(call.pnls))
        IN  /\ \A r \in 1..Len(ret.all_curves) :
                  /\ ret.all_curves[r][1] = call.init_cash
                  /\ ret.all_curves[r][last] = total
            /\ \A pk \in PctKeys :
                  ret.final_balance_percentiles[pk] =
                    ret.final_balance_percentiles[5]

(* C30 amended: every simulated curve starts at init_cash and ends at      *)
(* init_cash plus the PnLs accumulated in the order of one permutation of  *)
(* the PnL vector, each addition rounded to the float; when no addition is *)
(* rounded the final balance is init_cash + sum(pnls) in all simulations   *)
(* and all final_balance_percentiles are equal to it; in every case        *)
(* p5 <= p25 <= p50 <= p75 <= p95 for the final balance.                   *)
C30_FinalBalance ==
    Summarized =>
        LET k == Len(call.pnls)
            total == call.init_cash + SumTo(call.pnls, k)
            fbp == ret.final_balance_percentiles
        IN  /\ \A r \in 1..Len(ret.all_curves) :
                  /\ ret.all_curves[r][1] = call.init_cash
                  /\ \E f \in Perms(k) :
                        ret.all_curves[r][k + 1] =
                          Float(call.init_cash + CumSum(Permuted(call.pnls, f), k))
            /\ ExactSums(call.pnls, call.init_cash) =>
                  /\ \A r \in 1..Len(ret.all_curves) :
                        ret.all_curves[r][k + 1] = total
                  /\ \A pk \in PctKeys : fbp[pk] = R(total)
            /\ RLe(fbp[5], fbp[25]) /\ RLe(fbp[25], fbp[50])
            /\ RLe(fbp[50], fbp[75]) /\ RLe(fbp[75], fbp[95])

(* two simulations of one PnL vector ended on different balances *)
C30_Witness ==
    /\ Summarized
    /\ RLt(ret.final_balance_percentiles[5], ret.final_balance_percentiles[95])

----------------------------------------------------------------------------
(* run_montecarlo_endpoint, routers/backtest.py lines 106-119.  The        *)
(* response is left in ret: its status code, and in `called` / `args`      *)
(* whether run_montecarlo was called and with what.                        *)

(* the accepted simulation counts, line 110 *)
MinSimulations == 100
MaxSimulations == 10000

(* the simulation counts of the requests: around both limits *)
SimulationCounts ==
    {0, MinSimulations - 1, MinSimulations, MinSimulations + 1,
     MaxSimulations - 1, MaxSimulations, MaxSimulations + 1}

(* the PnL lists of the requests: the empty one and the PnL vectors *)
PnlLists == {<<>>} \cup PnlVectors

(* the limits taken as excluded *)
SimulationsRejectedAtLimits(simulations) ==
    simulations <= MinSimulations \/ simulations >= MaxSimulations

(* the test of line 110 *)
SimulationsRejected(simulations) ==
    simulations < MinSimulations \/ simulations > MaxSimulations

InitEndpoint ==
    /\ SimIdle
    /\ DriverIdle
    /\ \E pnls \in PnlLists, simulations \in SimulationCounts,
          ic \in {0, InitCash} :
          call = [fn |-> "run_montecarlo_endpoint", pnls |-> pnls,
                  init_cash |-> ic, simulations |-> simulations]
    /\ ret = NoRet

(* the handler: the two checks of lines 108-113, then the call of line 115 *)
(* which returns (200) or raises (500, lines 116-119)                      *)
RunMontecarloEndpoint ==
    /\ call.fn = "run_montecarlo_endpoint"
    /\ ret = NoRet
    /\ IF call.pnls = <<>>
       THEN ret' = [state |-> "responded", called |-> FALSE, args |-> <<>>,
                    status_code |-> 400, detail |-> "No trades provided"]
       ELSE IF SimulationsRejected(call.simulations)
       THEN ret' = [state |-> "responded", called |-> FALSE, args |-> <<>>,
                    status_code |-> 400,
                    detail |-> "Simulations must be between 100 and 10000"]
       ELSE \E raised \in BOOLEAN :
               ret' = [state |-> "responded", called |-> TRUE,
                       args |-> <<call.pnls, call.init_cash, call.simulations>>,
                       status_code |-> IF raised THEN 500 ELSE 200,
                       detail |-> IF raised THEN "Error en Monte Carlo" ELSE ""]
    /\ UNCHANGED <<simVars, driverVars, call>>

NextEndpoint == RunMontecarloEndpoint

SpecEndpoint == InitEndpoint /\ [][NextEndpoint]_vars

Responded == call.fn = "run_montecarlo_endpoint" /\ ret.state = "responded"

(* C21: a Monte Carlo request with an empty PnL list, or with a simulation *)
(* count below 100 or above 10000, is answered with a validation error     *)
(* (status 400) without run_montecarlo being called; every request with a  *)
(* non-empty list and a count in [100, 10000] reaches run_montecarlo, with *)
(* the request's pnls, init_cash and simulations.                          *)
C21_Validation ==
    Responded =>
        LET valid == /\ call.pnls # <<>>
                     /\ call.simulations >= 100
                     /\ call.simulations <= 10000
        IN  /\ ret.called <=> valid
            /\ ~valid => ret.status_code = 400
            /\ valid => /\ ret.args = <<call.pnls, call.init_cash, call.simulations>>
                        /\ ret.status_code \in {200, 500}

(* a request with trades and 10001 simulations was rejected *)
C21_Witness ==
    /\ Responded
    /\ call.pnls # <<>>
    /\ call.simulations = 10001
    /\ ~ret.called
    /\ ret.status_code = 400

----------------------------------------------------------------------------
(* simulate called twice on the same arrays.  The first call draws its     *)
(* inputs as the loop reads them and call.bars keeps what each iteration   *)
(* read; the second call reads bar i from call.bars.  ret.equity is the    *)
(* equity array of the running call, ret.first what the first call         *)
(* returned.                                                               *)

(* the locals kept from the previous call *)
StaleLocals ==
    [realized_pnl |-> realized_pnl, in_position |-> FALSE, entry_price |-> R(0),
     entry_idx |-> 0, entry_fee_amount |-> R(0), size |-> R(0),
     trail_extreme |-> R(0)]

(* the locals after lines 34-40 of a call *)
FreshLocals ==
    [realized_pnl |-> R(0), in_position |-> FALSE, entry_price |-> R(0),
     entry_idx |-> 0, entry_fee_amount |-> R(0), size |-> R(0),
     trail_extreme |-> R(0)]

InitRerun ==
    /\ n \in 0..MaxBars
    /\ direction \in Directions
    /\ fees \in FeeOpts
    /\ slippage \in SlipOpts
    /\ sl_stop \in StopOpts
    /\ sl_trail \in BOOLEAN
    /\ tp_stop \in StopOpts
    /\ i = 0
    /\ pc = "loop"
    /\ realized_pnl = R(0)
    /\ in_position = FALSE
    /\ entry_price = R(0)
    /\ entry_idx = 0
    /\ entry_fee_amount = R(0)
    /\ size = R(0)
    /\ trail_extreme = R(0)
    /\ equity_len = 0
    /\ equity_last = None
    /\ trades = <<>>
    /\ bar = NoBar
    /\ open_ = [k \in 1..MaxBars |-> 0]
    /\ entries = <<>>
    /\ exits = <<>>
    /\ opened = 0
    /\ DriverIdle
    /\ call = [fn |-> "simulate", bars |-> <<>>]
    /\ ret = [state |-> "first", equity |-> <<>>, first |-> <<>>]

(* one iteration of the first call: LoopIter, the inputs read being kept *)
FirstIter ==
    /\ ret.state = "first"
    /\ pc = "loop"
    /\ i < n
    /\ \E hi \in (IF in_position THEN Prices ELSE {0}),
          lo \in (IF in_position THEN Prices ELSE {0}),
          c0 \in (IF in_position THEN Prices ELSE {0}) :
          /\ lo <= c0 /\ c0 <= hi
          /\ (in_position /\ open_[i] # 0) => (lo <= open_[i] /\ open_[i] <= hi)
          /\ \E x \in (IF in_position /\ ~StopHit(hi, lo) /\ ~TpHit(hi, lo)
                       THEN BOOLEAN ELSE {FALSE}) :
             \E xb \in {ExitBlock(hi, lo, c0, x)} :
             \E e \in (IF ~in_position \/ xb.closing THEN BOOLEAN ELSE {FALSE}) :
             \E on \in (IF ReadsOpen(xb, e) THEN Prices ELSE {0}) :
             \E nb \in {EntryBlock(xb, e, on)} :
             \E cl \in (IF in_position THEN {c0}
                        ELSE IF nb.path = "open" THEN Prices ELSE {0}) :
                /\ Iterate(hi, lo, cl, e, x, on, xb, nb)
                /\ call' = [call EXCEPT !.bars =
                               Append(@, [high |-> hi, low |-> lo, close |-> cl,
                                          entry |-> e, exit |-> x, open_next |-> on])]
    /\ ret' = [ret EXCEPT !.equity = Append(@, equity_last')]
    /\ i' = i + 1
    /\ UNCHANGED <<params, pc, driverVars>>

(* the first call returns (line 180) and simulate is called again on the   *)
(* same arrays: lines 28-40                                                *)
CallAgain ==
    /\ ret.state = "first"
    /\ pc = "loop"
    /\ i = n
    /\ ret' = [state |-> "second", equity |-> <<>>,
               first |-> <<[equity |-> ret.equity, trades |-> trades]>>]
    /\ i' = 0
    /\ realized_pnl' = FreshLocals.realized_pnl
    /\ in_position' = FreshLocals.in_position
    /\ entry_price' = FreshLocals.entry_price
    /\ entry_idx' = FreshLocals.entry_idx
    /\ entry_fee_amount' = FreshLocals.entry_fee_amount
    /\ size' = FreshLocals.size
    /\ trail_extreme' = FreshLocals.trail_extreme
    /\ equity_len' = 0
    /\ equity_last' = None
    /\ trades' = <<>>
    /\ bar' = NoBar
    /\ open_' = [k \in 1..MaxBars |-> 0]
    /\ entries' = <<>>
    /\ exits' = <<>>
    /\ opened' = 0
    /\ UNCHANGED <<params, pc, driverVars, call>>

(* one iteration of the second call, on bar i of the same arrays *)
SecondIter ==
    /\ ret.state = "second"
    /\ pc = "loop"
    /\ i < n
    /\ LET b == call.bars[i + 1]
           xb == ExitBlock(b.high, b.low, b.close, b.exit)
           nb == EntryBlock(xb, b.entry, b.open_next)
       IN  Iterate(b.high, b.low, b.close, b.entry, b.exit, b.open_next, xb, nb)
    /\ ret' = [ret EXCEPT !.equity = Append(@, equity_last')]
    /\ i' = i + 1
    /\ UNCHANGED <<params, pc, driverVars, call>>

(* the second call returns, line 180 *)
ReturnAgain ==
    /\ ret.state = "second"
    /\ pc = "loop"
    /\ i = n
    /\ pc' = "done"
    /\ UNCHANGED <<params, i, locals, equity, trades, inputs, driverVars, callVars>>

NextRerun == FirstIter \/ CallAgain \/ SecondIter \/ ReturnAgain

SpecRerun == InitRerun /\ [][NextRerun]_vars

----------------------------------------------------------------------------
(* Properties of simulate on fees, skipped entries, trade order and fill   *)
(* prices, under Spec.                                                     *)

(* the sum of the pnl of trades ts *)
RECURSIVE SumPnl(_)
SumPnl(ts) == IF ts = <<>> THEN R(0) ELSE RAdd(Head(ts).pnl, SumPnl(Tail(ts)))

(* C23: each fee is charged exactly once in the equity model: whenever no  *)
(* position is open after bar i, equity[i] = init_cash + the sum of pnl of *)
(* all trades closed at or before bar i, for any fees >= 0 and slippage    *)
(* >= 0; the final equity equals init_cash plus the total trade pnl.       *)
C23_FeeOnce ==
    (equity_len >= 1 /\ ~in_position) =>
        equity_last = RAdd(init_cash, SumPnl(trades))

(* the pnl of the trade closed by this iteration, 0 when none was *)
ClosedPnl == IF ClosedNow THEN trades'[Len(trades')].pnl ELSE R(0)

(* the entry guard of line 145 held in this iteration and one of the tests *)
(* of lines 147, 154, 160 stopped the entry                                *)
EntrySkipped ==
    /\ IterStep
    /\ entries'[i + 1] = "true"
    /\ i < n - 1
    /\ LET cash == RAdd(init_cash, RAdd(realized_pnl, ClosedPnl))
           fill == SlippedOpen(open_'[i + 1])
       IN  \/ RLe(cash, R(0))
           \/ RLe(fill, R(0))
           \/ RLe(RDiv(cash, RMul(fill, RAdd(R(1), fees))), R(0))

(* C24: when an entry signal fires while flat but init_cash + realized_pnl *)
(* <= 0, or the slippage-adjusted fill price <= 0, or the computed size    *)
(* <= 0, no position is opened, no fee is charged, the entry leaves        *)
(* realized_pnl and the trade list as the exit block left them, and        *)
(* equity[i] is written as init_cash + realized_pnl; every iteration       *)
(* writes one equity value, N values when simulate returns.                *)
C24_SkippedEntry ==
    /\ [][EntrySkipped =>
            /\ ~in_position'
            /\ opened' = opened
            /\ entry_fee_amount' = R(0)
            /\ realized_pnl' = RAdd(realized_pnl, ClosedPnl)
            /\ Len(trades') = Len(trades) + (IF ClosedNow THEN 1 ELSE 0)
            /\ SubSeq(trades', 1, Len(trades)) = trades
            /\ equity_last' = RAdd(init_cash, realized_pnl')
            /\ equity_len' = equity_len + 1
         ]_vars
    /\ [](equity_len = i /\ (equity_len > 0 => equity_last # None))
    /\ [](pc = "done" => equity_len = n)

(* an entry signal met an account without cash: nothing was opened and the *)
(* bar's equity is the cash left                                           *)
C24_Witness ==
    /\ i >= 1 /\ i < n
    /\ entries[i] = "true"
    /\ ~in_position
    /\ RLe(RAdd(init_cash, realized_pnl), R(0))
    /\ equity_last = RAdd(init_cash, realized_pnl)

(* C25: trades never overlap and are emitted in chronological order: at    *)
(* most one position is open at any bar (a position is opened only when    *)
(* none is open or the open one was closed by the same iteration), and for *)
(* consecutive trades t_k, t_{k+1} of a day t_{k+1}.entry_idx >            *)
(* t_k.exit_idx; the open position was entered after the last exit.        *)
C25_NoOverlap ==
    /\ [](\A k \in 1..(Len(trades) - 1) :
             /\ trades[k + 1].entry_idx > trades[k].exit_idx
             /\ trades[k + 1].exit_idx > trades[k].exit_idx)
    /\ []((in_position /\ trades # <<>>) => entry_idx > LastTrade.exit_idx)
    /\ [](opened - Len(trades) = (IF in_position THEN 1 ELSE 0))
    /\ [][(IterStep /\ opened' = opened + 1) =>
            (~in_position \/ (ClosedNow /\ trades'[Len(trades')].exit_idx = i))
         ]_vars

(* a position closed on bar 1 and the next one entered on bar 2 *)
C25_Witness ==
    /\ Len(trades) = 2
    /\ trades[1].exit_idx = 1
    /\ trades[2].entry_idx = 2

(* C26: every exit's fill price before slippage lies within                *)
(* [low[i], high[i]] of the exit bar i, for stop-loss, trailing-stop and   *)
(* take-profit exits alike, including bars that gap entirely beyond the    *)
(* stop or target level.                                                   *)
C26_FillWithinBar ==
    [][(IterStep /\ in_position /\ ClosedNow) =>
        LET hi == bar'.high
            lo == bar'.low
            t == trades'[Len(trades')]
            fill == IF StopHit(hi, lo) THEN StopFill(hi, lo)
                    ELSE IF TpHit(hi, lo) THEN TpFill(hi, lo)
                    ELSE R(bar'.close)
        IN  /\ t.exit_price = NetExit(fill)
            /\ RLe(R(lo), fill)
            /\ RLe(fill, R(hi))
      ]_vars

----------------------------------------------------------------------------
(* The portfolio parameters of a batch, backtest_service.py lines 80-104,  *)
(* 153-164, 171-227 and 279-327: the prepared items are grouped by         *)
(* _batch_key, a batch of MIN_BATCH_SIZE items or more is run with the     *)
(* parameters of its first item, the others with their own.  ret.kwargs[k] *)
(* is what Portfolio.from_signals received for item k.                     *)

(* the decimals kept by the key, lines 160 and 162 *)
KeyDecimals == 8

(* floor(p * 10^d / q) and the remainder, one decimal at a time *)
RECURSIVE DivDigits(_, _, _)
DivDigits(p, q, d) ==
    IF d = 0 THEN [quot |-> p \div q, rem |-> p % q]
    ELSE LET prev == DivDigits(p, q, d - 1)
         IN  [quot |-> prev.quot * 10 + (prev.rem * 10) \div q,
              rem |-> (prev.rem * 10) % q]

(* round(x, d) of x >= 0, half to even *)
RoundTo(x, d) ==
    LET dd == DivDigits(x[1], x[2], d)
        up == 2 * dd.rem > x[2] \/ (2 * dd.rem = x[2] /\ dd.quot % 2 = 1)
    IN  Frac(IF up THEN dd.quot + 1 ELSE dd.quot, Pow10(d))

(* the sl_stop of a day: a Fixed Amount stop divides by the day's first    *)
(* close, so that two days can be as close as 1/3 and 0.33333333           *)
KeyStops == {None, Frac(1, 3), Frac(33333333, 100000000), Frac(1, 2)}

SignalSets ==
    [direction : Directions, sl_stop : KeyStops, sl_trail : BOOLEAN,
     tp_stop : StopOpts, accept_reentries : BOOLEAN]

(* a prepared item: len(day_df) and the translated signals *)
Items == [bars : {MinBars, MinBars + 1}, signals : SignalSets]

(* _batch_key, lines 153-164 *)
BatchKey(item) ==
    LET sl == item.signals.sl_stop
        tp == item.signals.tp_stop
    IN  <<item.bars,
          item.signals.direction,
          IF sl # None THEN RoundTo(sl, KeyDecimals) ELSE None,
          item.signals.sl_trail,
          IF tp # None THEN RoundTo(tp, KeyDecimals) ELSE None,
          item.signals.accept_reentries>>

(* pf_kwargs from a signals dict, lines 199-227 and 300-327; a keyword not *)
(* passed is kept as None / FALSE / "default"                              *)
PfKwargs(signals) ==
    [direction |-> signals.direction,
     sl_stop |-> signals.sl_stop,
     sl_trail |-> signals.sl_stop # None /\ signals.sl_trail,
     tp_stop |-> signals.tp_stop,
     accumulate |-> IF ~signals.accept_reentries THEN "False" ELSE "default"]

(* the items of the batch of item k, lines 80-84 *)
BatchOfItem(items, k) ==
    {j \in 1..Len(items) : BatchKey(items[j]) = BatchKey(items[k])}

(* whether item k goes through _process_batch, lines 98-104 *)
Batched(items, k) == Cardinality(BatchOfItem(items, k)) >= MIN_BATCH_SIZE

(* the keywords item k is simulated with: first_signals in a batch whose   *)
(* call did not raise, its own signals otherwise                           *)
KwargsUsed(items, k, raised) ==
    IF Batched(items, k) /\ ~raised
    THEN PfKwargs(items[Least(BatchOfItem(items, k))].signals)
    ELSE PfKwargs(items[k].signals)

InitBatch ==
    /\ SimIdle
    /\ DriverIdle
    /\ \E items \in [1..MIN_BATCH_SIZE -> Items] :
          call = [fn |-> "_process_batch", prepared |-> items]
    /\ ret = NoRet

(* Phase 2 and 3 of run_backtest on the prepared items *)
RunBatches ==
    /\ call.fn = "_process_batch"
    /\ ret = NoRet
    /\ \E raised \in BOOLEAN :
          ret' = [state |-> "done",
                  kwargs |-> [k \in 1..Len(call.prepared) |->
                                KwargsUsed(call.prepared, k, raised)]]
    /\ UNCHANGED <<simVars, driverVars, call>>

NextBatch == RunBatches

SpecBatch == InitBatch /\ [][NextBatch]_vars

(* C27: every day placed in a batch is simulated with exactly the          *)
(* direction, sl_stop, sl_trail, tp_stop and accept_reentries of its own   *)
(* translated signals: days get the same batch key only if those           *)
(* parameters are identical, so applying the first item's parameters to    *)
(* the whole batch gives each day what processing it alone would.          *)
C27_OwnParameters ==
    (call.fn = "_process_batch" /\ ret.state = "done") =>
        \A k \in 1..Len(call.prepared) :
            /\ ret.kwargs[k] = PfKwargs(call.prepared[k].signals)
            /\ \A j \in BatchOfItem(call.prepared, k) :
                  call.prepared[j].signals = call.prepared[k].signals

----------------------------------------------------------------------------
(* The indicator cache, indicators.py lines 88-121 and strategy_engine.py  *)
(* lines 36-65.  translate_strategy is called on the days 1..MaxDays in    *)
(* turn; in a call the entry block, then the exit block, then the risk     *)
(* translation call compute_indicator on their bars with their cache.      *)
(* The bars of a block are kept as the day and the resampling frequency in *)
(* minutes; the raw series of an indicator is kept as what it is computed  *)
(* from, its name, its period and the bars.  ret.caches are the dicts of   *)
(* the running call, ret.last the latest call of compute_indicator.        *)

(* ATR's period in the risk translation, strategy_engine.py line 271 *)
AtrPeriod == 14

Blocks == {"entry", "exit", "risk"}

(* the (name, period, offset) a condition can ask for *)
IndicatorRequests ==
    {<<"Close", None, o>> : o \in {0, 1}} \cup {<<"ATR", AtrPeriod, o>> : o \in {0, 1}}

(* what a block asks for: the risk translation only asks for ATR(14) *)
RequestsOf(block) ==
    IF block = "risk" THEN {<<"ATR", AtrPeriod, 0>>} ELSE IndicatorRequests

(* the bars a block is evaluated on, lines 36-37 and 65: the day's bars    *)
(* resampled at the block's timeframe, the day's bars themselves for risk  *)
BarsOf(block, day, entry_tf, exit_tf) ==
    [day |-> day,
     freq |-> CASE block = "entry" -> Freq(entry_tf)
                [] block = "exit" -> Freq(exit_tf)
                [] OTHER -> 1]

(* one cache for all the blocks *)
CacheOfShared(block, entry_tf, exit_tf) == "entry"

(* the dict a block is given, lines 49-50 and 64 *)
CacheOf(block, entry_tf, exit_tf) ==
    CASE block = "entry" -> "entry"
      [] block = "exit" -> IF entry_tf = exit_tf THEN "entry" ELSE "exit"
      [] OTHER -> IF entry_tf = "1m" THEN "entry" ELSE "risk"

(* the empty dict *)
EmptyCache == [k \in {} |-> 0]

(* the dicts of a call, all empty: lines 49, 50, 64 *)
NewCaches == [id \in Blocks |-> EmptyCache]

(* compute_indicator without a cache, lines 107-116 *)
ComputeNoCache(key, bars) ==
    [name |-> key[1], period |-> key[2], bars |-> bars, shift |-> key[3]]

(* compute_indicator with the dict cache, lines 103-121: what it returns   *)
(* and the dict after the call                                             *)
ComputeIndicator(key, bars, cache) ==
    IF key \in DOMAIN cache
    THEN [result |-> cache[key], cache |-> cache]
    ELSE LET result == ComputeNoCache(key, bars)
         IN  [result |-> result,
              cache |-> [k \in DOMAIN cache \cup {key} |->
                           IF k = key THEN result ELSE cache[k]]]

InitCache ==
    /\ SimIdle
    /\ DriverIdle
    /\ \E entry_tf \in Timeframes, exit_tf \in Timeframes :
          call = [fn |-> "translate_strategy", day |-> 1,
                  entry_tf |-> entry_tf, exit_tf |-> exit_tf]
    /\ ret = [state |-> "running", block |-> "entry", caches |-> NewCaches,
              last |-> <<>>]

(* one call of compute_indicator by the running block *)
CallComputeIndicator ==
    /\ call.fn = "translate_strategy"
    /\ ret.state = "running"
    /\ \E key \in RequestsOf(ret.block) :
          LET id == CacheOf(ret.block, call.entry_tf, call.exit_tf)
              bars == BarsOf(ret.block, call.day, call.entry_tf, call.exit_tf)
              out == ComputeIndicator(key, bars, ret.caches[id])
          IN  ret' = [ret EXCEPT !.caches[id] = out.cache,
                                 !.last = <<[block |-> ret.block, key |-> key,
                                             result |-> out.result]>>]
    /\ UNCHANGED <<simVars, driverVars, call>>

(* the next block of the call: exits after entries, risk after exits *)
NextBlock ==
    /\ call.fn = "translate_strategy"
    /\ ret.state = "running"
    /\ ret.block # "risk"
    /\ ret' = [ret EXCEPT !.block = IF ret.block = "entry" THEN "exit" ELSE "risk"]
    /\ UNCHANGED <<simVars, driverVars, call>>

(* the call returns and translate_strategy is called on the next day *)
NextDay ==
    /\ call.fn = "translate_strategy"
    /\ ret.state = "running"
    /\ ret.block = "risk"
    /\ call.day < MaxDays
    /\ call' = [call EXCEPT !.day = call.day + 1]
    /\ ret' = [state |-> "running", block |-> "entry", caches |-> NewCaches,
               last |-> <<>>]
    /\ UNCHANGED <<simVars, driverVars>>

NextCache == CallComputeIndicator \/ NextBlock \/ NextDay

SpecCache == InitCache /\ [][NextCache]_vars

CacheRunning == call.fn = "translate_strategy" /\ ret.state = "running"

(* C28: the indicator cache is transparent and scoped to one day:          *)
(* compute_indicator with a cache returns the post-offset series it        *)
(* returns without one, for every (name, period, offset); two blocks are   *)
(* given the same cache only when they evaluate the same bars; and every   *)
(* series held by a cache was computed from the bars of the running day at *)
(* the timeframe of the blocks that use the cache.                         *)
C28_CacheTransparent ==
    CacheRunning =>
        LET bars(b) == BarsOf(b, call.day, call.entry_tf, call.exit_tf)
            cache(b) == CacheOf(b, call.entry_tf, call.exit_tf)
        IN  /\ ret.last # <<>> =>
                  ret.last[1].result =
                    ComputeNoCache(ret.last[1].key, bars(ret.last[1].block))
            /\ \A b1 \in Blocks, b2 \in Blocks :
                  cache(b1) = cache(b2) => bars(b1) = bars(b2)
            /\ \A b \in Blocks : \A key \in DOMAIN ret.caches[cache(b)] :
                  /\ ret.caches[cache(b)][key].bars = bars(b)
                  /\ ret.caches[cache(b)][key] = ComputeNoCache(key, bars(b))

(* on the second day the exit block, evaluated on 5-minute bars while the  *)
(* entry block is on 1-minute bars, asked for a series the entry block had *)
(* cached: it was computed again on the exit bars, and the risk            *)
(* translation took ATR(14) from the entry block's cache                   *)
C28_Witness ==
    /\ CacheRunning
    /\ call.day = 2
    /\ call.entry_tf = "1m" /\ call.exit_tf = "5m"
    /\ ret.block = "risk"
    /\ <<"ATR", AtrPeriod, 0>> \in DOMAIN ret.caches["entry"]
    /\ <<"ATR", AtrPeriod, 0>> \in DOMAIN ret.caches["exit"]
    /\ ret.caches["risk"] = EmptyCache
    /\ ret.last # <<>>
    /\ ret.last[1].block = "risk"

----------------------------------------------------------------------------
(* db/connection.py.  query_df and execute_sql are called from the request *)
(* handlers, which the server runs on a pool of threads.  call.threads[t]  *)
(* is the position of thread t in its call: `pc`, the function called, the *)
(* attempt of the loop of lines 41 / 59, `tries` the times it entered the  *)
(* try block, the connection get_connection returned to it, the calls it   *)
(* made so far, and `mark`, the number of connections that existed when it *)
(* reset the connection.  ret.conn is the                                  *)
(* global _conn (0 for None), ret.conns[c] the state of the c-th           *)
(* connection created: "open", "closed", or "close_failed" when its        *)
(* close() raised.                                                         *)

Threads == 2
MaxCalls == 2

DbThreads == 1..Threads
DbFunctions == {"query_df", "execute_sql"}

IdleThread == [pc |-> "idle", fn |-> "none", attempt |-> 0, tries |-> 0,
               conn |-> 0, calls |-> 0, mark |-> 0]

InitConnection ==
    /\ SimIdle
    /\ DriverIdle
    /\ call = [fn |-> "connection", threads |-> [t \in DbThreads |-> IdleThread]]
    /\ ret = [state |-> "module", conn |-> 0, conns |-> <<>>]

(* _reset_connection, lines 27-35: close() on the cached connection, an    *)
(* exception of close() being passed over, then _conn = None               *)
ResetConnection(db, close_raises) ==
    [db EXCEPT !.conn = 0,
               !.conns = IF db.conn = 0 THEN @
                         ELSE [@ EXCEPT ![db.conn] =
                                 IF close_raises THEN "close_failed" ELSE "closed"]]

(* the `except` of lines 47-53 / 67-73 in thread t: the first failure      *)
(* resets the connection and starts the second attempt, the second is      *)
(* raised to the caller                                                    *)
Except(t) ==
    LET th == call.threads[t]
    IN  IF th.attempt = 0
        THEN \E close_raises \in BOOLEAN :
                /\ ret' = ResetConnection(ret, close_raises)
                /\ call' = [call EXCEPT !.threads[t] =
                               [th EXCEPT !.pc = "get", !.attempt = 1, !.conn = 0,
                                          !.mark = Len(ret.conns)]]
        ELSE /\ call' = [call EXCEPT !.threads[t] = [th EXCEPT !.pc = "raised"]]
             /\ ret' = ret

(* thread t calls query_df or execute_sql *)
CallDb(t) ==
    /\ call.threads[t].pc = "idle"
    /\ call.threads[t].calls < MaxCalls
    /\ \E fn \in DbFunctions :
          call' = [call EXCEPT !.threads[t] =
                     [pc |-> "get", fn |-> fn, attempt |-> 0, tries |-> 0,
                      conn |-> 0, calls |-> @.calls + 1, mark |-> 0]]
    /\ UNCHANGED <<simVars, driverVars, ret>>

(* get_connection, lines 13-16, up to the test of line 14 *)
GetConnection(t) ==
    /\ call.threads[t].pc = "get"
    /\ call' = [call EXCEPT !.threads[t] =
                  IF ret.conn = 0
                  THEN [@ EXCEPT !.pc = "create", !.tries = @ + 1]
                  ELSE [@ EXCEPT !.pc = "exec", !.tries = @ + 1, !.conn = ret.conn]]
    /\ UNCHANGED <<simVars, driverVars, ret>>

(* _create_connection and the assignment of line 15: duckdb.connect        *)
(* returns a new connection or raises                                      *)
CreateConnection(t) ==
    /\ call.threads[t].pc = "create"
    /\ \/ /\ ret' = [ret EXCEPT !.conns = Append(@, "open"),
                                 !.conn = Len(ret.conns) + 1]
          /\ call' = [call EXCEPT !.threads[t] =
                        [@ EXCEPT !.pc = "exec", !.conn = Len(ret.conns) + 1]]
       \/ Except(t)
    /\ UNCHANGED <<simVars, driverVars>>

(* conn.execute(..), lines 44-46 / 62-66: it returns only on a connection  *)
(* that is not closed, and it can raise on any                             *)
Execute(t) ==
    /\ call.threads[t].pc = "exec"
    /\ \/ /\ ret.conns[call.threads[t].conn] # "closed"
          /\ call' = [call EXCEPT !.threads[t] = [@ EXCEPT !.pc = "returned"]]
          /\ ret' = ret
       \/ Except(t)
    /\ UNCHANGED <<simVars, driverVars>>

(* the call is over: its caller goes on *)
EndCall(t) ==
    /\ call.threads[t].pc \in {"returned", "raised"}
    /\ call' = [call EXCEPT !.threads[t] = [@ EXCEPT !.pc = "idle"]]
    /\ UNCHANGED <<simVars, driverVars, ret>>

NextConnection ==
    \E t \in DbThreads :
        \/ CallDb(t)
        \/ GetConnection(t)
        \/ CreateConnection(t)
        \/ Execute(t)
        \/ EndCall(t)

SpecConnection == InitConnection /\ [][NextConnection]_vars

Th(t) == call.threads[t]
ThNext(t) == call'.threads[t]

(* C29: query_df and execute_sql make at most two attempts per call; after *)
(* a failed first attempt close() is called on the cached connection and   *)
(* _conn is cleared, so that the second attempt runs on a connection       *)
(* created after the failure; a second failure is raised to the caller; a  *)
(* successful call leaves one connection cached, the open connection it    *)
(* ran on.                                                                 *)
C29_Reconnect ==
    /\ [](\A t \in DbThreads :
             /\ Th(t).tries <= 2
             /\ Th(t).pc = "raised" => (Th(t).tries = 2 /\ Th(t).attempt = 1)
             /\ (Th(t).attempt = 1 /\ Th(t).conn # 0) => Th(t).conn > Th(t).mark)
    /\ [][\A t \in DbThreads :
            /\ (Th(t).attempt = 0 /\ ThNext(t).attempt = 1) =>
                  /\ ret'.conn = 0
                  /\ ret.conn # 0 =>
                        ret'.conns[ret.conn] \in {"closed", "close_failed"}
            /\ (Th(t).pc # "returned" /\ ThNext(t).pc = "returned") =>
                  /\ ret'.conn # 0
                  /\ ret'.conn = ThNext(t).conn
                  /\ ret'.conns[ret'.conn] = "open"
         ]_vars

====
